---- MODULE Spec2Model ----
(***************************************************************************)
(* Courier: reliable file transfer over datagrams.  A model of the Send    *)
(* Engine, the Receive Engine, the datagram codec and the Store of         *)
(* src/courier, for one bundle between one sending and one receiving node. *)
(*                                                                         *)
(* Time.  Every handler reads the clock once (time.time()).  The model     *)
(* keeps no absolute clock: a deadline chunk_timers[c] is held as the time *)
(* that remains until it (0 = expired, i.e. current_time >= deadline) and  *)
(* a send timestamp as the time elapsed since it; the action TimePasses    *)
(* moves both.  Durations that the code holds as floats (timeout_interval, *)
(* smoothed_rtt, rtt_variance, deadlines) are fixed-point numbers in units *)
(* of 1/FP ms, so that the factors 0.125, 0.25, 0.75, 0.875 are exact.     *)
(***************************************************************************)
EXTENDS Integers, Sequences, FiniteSets, TLC

\* ------------------------------------------------------------------ bounds
MaxFileLen == 3
MaxChunkSize == 2
MaxWindow == 2
MaxRetransmitted == 2
MaxAge == 300
MaxFaults == 1
MaxRestarts == 1
LongStep == 1000

\* The byte values files are drawn from (bytes themselves range over 0..255).
ByteVals == {1, 2}
\* The (k, r) pairs of fec.k, fec.r that configurations are drawn from.
FecParams == {<<1, 1>>, <<2, 1>>, <<2, 2>>}

\* ------------------------------------------------------------- arithmetic
Min(a, b) == IF a <= b THEN a ELSE b
Max(a, b) == IF a >= b THEN a ELSE b
Abs(a) == IF a >= 0 THEN a ELSE 0 - a
\* (a + b - 1) // b
CeilDiv(a, b) == (a + b - 1) \div b

RECURSIVE BitXor(_, _)
\* a ^ b on non-negative integers
BitXor(a, b) ==
    IF a = 0 THEN b
    ELSE IF b = 0 THEN a
    ELSE (((a % 2) + (b % 2)) % 2) + 2 * BitXor(a \div 2, b \div 2)

\* ------------------------------------------------------------------ bytes
\* A payload is a sequence of bytes (0..255), indexed from 1.
SubSeqFrom(s, i) == IF i > Len(s) THEN <<>> ELSE SubSeq(s, i, Len(s))

RECURSIVE Concat(_)
\* The concatenation of a sequence of payloads.
Concat(ps) == IF ps = <<>> THEN <<>> ELSE Head(ps) \o Concat(Tail(ps))

\* zlib.crc32: a 32-bit value held as <<high 16 bits, low 16 bits>>.
\* One step of the reflected CRC-32 (polynomial 0xEDB88320 = <<60856, 33568>>).
CrcShift(c) ==
    LET sh == << c[1] \div 2, (c[2] \div 2) + (c[1] % 2) * 32768 >>
    IN  IF c[2] % 2 = 1
        THEN << BitXor(sh[1], 60856), BitXor(sh[2], 33568) >>
        ELSE sh

RECURSIVE CrcShifts(_, _)
\* n steps of the CRC, each applied to the value of the step before it.
CrcShifts(c, n) ==
    IF n = 0 THEN c
    ELSE CHOOSE v \in {CrcShifts(CrcShift(x), n - 1) : x \in {c}} : TRUE

CrcByte(c, b) ==
    CHOOSE v \in {CrcShifts(<< x[1], BitXor(x[2], b) >>, 8) : x \in {c}} : TRUE

RECURSIVE CrcRun(_, _)
CrcRun(c, payload) ==
    IF payload = <<>> THEN c ELSE CrcRun(CrcByte(c, Head(payload)), Tail(payload))

crc32(payload) ==
    CHOOSE v \in {<< BitXor(c[1], 65535), BitXor(c[2], 65535) >> :
                      c \in {CrcRun(<<65535, 65535>>, payload)}} : TRUE

\* SendEngine._xor_chunks / ReceiveEngine._xor_bytes: fold `payload` into
\* `result`: XOR over the common prefix, then the suffix of the longer payload.
XorInto(result, payload) ==
    LET limit == Min(Len(result), Len(payload))
    IN  [i \in 1..Max(Len(result), Len(payload)) |->
            IF i <= limit THEN BitXor(result[i], payload[i])
            ELSE IF i <= Len(result) THEN result[i]
            ELSE payload[i]]

RECURSIVE XorFold(_, _)
XorFold(result, payloads) ==
    IF payloads = <<>> THEN result
    ELSE XorFold(XorInto(result, Head(payloads)), Tail(payloads))

\* SendEngine._xor_chunks(chunks): the parity payload of a block.
\* `payloads` are the block's payloads in chunk order.
_xor_chunks(payloads) ==
    IF payloads = <<>> THEN <<>> ELSE XorFold(Head(payloads), Tail(payloads))

\* ReceiveEngine._xor_bytes(base, others)
_xor_bytes(base, others) == XorFold(base, others)


\* ---------------------------------------------------------- configuration
\* Fixed-point unit: durations held as floats are counted in 1/FP ms.
FP == 2^16
\* protocol.MAX_SACK_WINDOW_BITS
MAX_SACK_WINDOW_BITS == 2048
\* NetworkIO.send_message refuses datagrams longer than this.
MaxDatagram == 1200
\* The DATA header: struct "!B16sIIIHHIBH".
DataHeaderLen == 40
\* ReceiveEngine.handle_data flushes its write batch at this many records ...
WriteBatchLimit == 500
\* ... and acknowledges every this many received chunks.
SackEvery == 50
\* SendState.smoothed_rtt and SendState.rtt_variance as constructed (ms).
InitialSrttMs == 300
InitialRttVarMs == 150
\* The floor of _update_rtt_estimates' timeout (ms).
MinRtoMs == 100

\* (base_rto_ms, max_rto_ms) pairs configurations are drawn from; the second is
\* the shape of the defaults of TransferConfig (base 900 > max 500).
RtoConfigs == {<<100, 400>>, <<200, 100>>}

\* The one bundle id the model lets uuid4 produce.
\* Bundle ids as the bytes of their text: "b1".
BundleIds == {<<98, 49>>}

\* FECConfig values: off (as the tests build it) or on with (k, r).
FecConfigs ==
    {[enabled |-> FALSE, k |-> 0, r |-> 0]}
    \cup {[enabled |-> TRUE, k |-> p[1], r |-> p[2]] : p \in FecParams}

\* TransferConfig and FECConfig of one node.
Configs ==
    {[chunk_size |-> cs, window_size |-> w, base_rto_ms |-> rto[1],
      max_rto_ms |-> rto[2], fec |-> f] :
        cs \in 1..MaxChunkSize, w \in 1..MaxWindow, rto \in RtoConfigs,
        f \in FecConfigs}

\* File contents: every byte sequence over ByteVals of length 0..MaxFileLen.
Files == UNION {[1..n -> ByteVals] : n \in 0..MaxFileLen}

EmptyMap == [z \in {} |-> 0]

\* dict.pop(key, None) / del dict[key]
Drop(f, keys) == [z \in (DOMAIN f) \ keys |-> f[z]]
\* dict[key] = value for every key of `keys`
Put(f, keys, v) == [z \in (DOMAIN f) \cup keys |-> IF z \in keys THEN v ELSE f[z]]
\* dict.update(g)
Update(f, g) == [z \in (DOMAIN f) \cup (DOMAIN g) |-> IF z \in DOMAIN g THEN g[z] ELSE f[z]]

\* The elements of a finite set of integers in ascending order.
RECURSIVE Sorted(_)
Sorted(S) ==
    IF S = {} THEN <<>>
    ELSE LET m == CHOOSE a \in S : \A b \in S : a <= b
         IN  <<m>> \o Sorted(S \ {m})

RECURSIVE SumLen(_)
SumLen(ps) == IF ps = <<>> THEN 0 ELSE Len(Head(ps)) + SumLen(Tail(ps))

\* ------------------------------------------------------------ chunking
\* SendEngine._generate_fec_chunks: the parity chunk with id c >= n, where
\* `data` maps 0..n-1 to the data chunks: r copies of each block's XOR stripe.
ParityChunk(data, n, c, k, r) ==
    LET block_id == (c - n) \div r
        block_start == block_id * k
        block_ids == block_start .. (Min(block_start + k, n) - 1)
        parity_data == _xor_chunks([i \in 1..Cardinality(block_ids) |->
                                       data[block_start + i - 1].payload])
    IN  [chunk_id |-> c, is_parity |-> TRUE, block_id |-> block_id,
         k |-> k, r |-> r, payload |-> parity_data,
         checksum |-> crc32(parity_data)]

\* _generate_fec_chunks giving parity to full blocks only.
_generate_fec_chunks_FullBlocks(data, n, fec) ==
    IF fec.k <= 0 \/ fec.r <= 0 THEN EmptyMap
    ELSE LET block_starts == {s \in 0..(n - 1) : s % fec.k = 0 /\ s + fec.k <= n}
         IN  [c \in {n + (s \div fec.k) * fec.r + parity_idx :
                        s \in block_starts, parity_idx \in 0..(fec.r - 1)} |->
                 ParityChunk(data, n, c, fec.k, fec.r)]

\* SendEngine._generate_fec_chunks: r parity chunks for each block start of
\* range(0, n, k), the last block being partial when k does not divide n.
_generate_fec_chunks(data, n, fec) ==
    IF fec.k <= 0 \/ fec.r <= 0 THEN EmptyMap
    ELSE LET block_starts == {s \in 0..(n - 1) : s % fec.k = 0}
         IN  [c \in {n + (s \div fec.k) * fec.r + parity_idx :
                        s \in block_starts, parity_idx \in 0..(fec.r - 1)} |->
                 ParityChunk(data, n, c, fec.k, fec.r)]

\* SendEngine._create_chunks: chunk_id -> chunk, data chunks 0..n-1 first.
_create_chunks(file_data, cfg, fec_enabled) ==
    LET chunk_size == cfg.chunk_size
        n == (Len(file_data) + chunk_size - 1) \div chunk_size
        data == [i \in 0..(n - 1) |->
                    LET start == i * chunk_size
                        end == Min(start + chunk_size, Len(file_data))
                        payload == SubSeq(file_data, start + 1, end)
                    IN  [chunk_id |-> i, is_parity |-> FALSE,
                         block_id |-> IF fec_enabled /\ cfg.fec.k > 0
                                      THEN i \div cfg.fec.k ELSE 0,
                         k |-> IF fec_enabled THEN cfg.fec.k ELSE 0,
                         r |-> IF fec_enabled THEN cfg.fec.r ELSE 0,
                         payload |-> payload,
                         checksum |-> crc32(payload)]]
    IN  IF fec_enabled /\ cfg.fec.enabled /\ cfg.fec.k > 0 /\ cfg.fec.r > 0
        THEN Update(data, _generate_fec_chunks(data, n, cfg.fec))
        ELSE data

\* ------------------------------------------------------------------ codec
\* protocol.make_data_msg
make_data_msg(bundle_id, chunk, total_chunks) ==
    [msg_type |-> "DATA", bundle_id |-> bundle_id, chunk_id |-> chunk.chunk_id,
     total_chunks |-> total_chunks, block_id |-> chunk.block_id,
     k |-> chunk.k, r |-> chunk.r, checksum |-> chunk.checksum,
     payload |-> chunk.payload]

\* _compute_sack_window with the lowest-order bit of byte 0 standing for
\* watermark + 1.
_compute_sack_window_LowBitFirst(acked_chunks) ==
    LET acked_set == {c \in acked_chunks : c >= 0}
        below == {w \in acked_set : \A i \in 0..w : i \in acked_set}
        watermark == IF below = {} THEN -1
                     ELSE CHOOSE w \in below : \A v \in below : v <= w
        max_acked == CHOOSE m \in acked_set : \A c \in acked_set : c <= m
        max_high == Min(max_acked, watermark + MAX_SACK_WINDOW_BITS)
        num_bits == max_high - (watermark + 1) + 1
        num_bytes == (num_bits + 7) \div 8
        Bit(byte_index, bit_pos) ==
            LET c == watermark + 1 + byte_index * 8 + bit_pos
            IN  IF c \in acked_set /\ c <= max_high THEN 2^bit_pos ELSE 0
    IN  IF acked_set = {} THEN << -1, <<>> >>
        ELSE IF max_acked <= watermark THEN << watermark, <<>> >>
        ELSE << watermark,
                [j \in 1..num_bytes |->
                    Bit(j-1, 0) + Bit(j-1, 1) + Bit(j-1, 2) + Bit(j-1, 3)
                    + Bit(j-1, 4) + Bit(j-1, 5) + Bit(j-1, 6) + Bit(j-1, 7)] >>

\* protocol._compute_sack_window: <<recv_watermark, sack_bitmap>>
_compute_sack_window(acked_chunks) ==
    LET acked_set == {c \in acked_chunks : c >= 0}
        below == {w \in acked_set : \A i \in 0..w : i \in acked_set}
        watermark == IF below = {} THEN -1
                     ELSE CHOOSE w \in below : \A v \in below : v <= w
        max_acked == CHOOSE m \in acked_set : \A c \in acked_set : c <= m
        max_high == Min(max_acked, watermark + MAX_SACK_WINDOW_BITS)
        num_bits == max_high - (watermark + 1) + 1
        num_bytes == (num_bits + 7) \div 8
        Bit(byte_index, bit_pos) ==
            LET c == watermark + 1 + byte_index * 8 + bit_pos
            IN  IF c \in acked_set /\ c <= max_high THEN 2^(7 - bit_pos) ELSE 0
    IN  IF acked_set = {} THEN << -1, <<>> >>
        ELSE IF max_acked <= watermark THEN << watermark, <<>> >>
        ELSE << watermark,
                [j \in 1..num_bytes |->
                    Bit(j-1, 0) + Bit(j-1, 1) + Bit(j-1, 2) + Bit(j-1, 3)
                    + Bit(j-1, 4) + Bit(j-1, 5) + Bit(j-1, 6) + Bit(j-1, 7)] >>

\* protocol.make_sack_msg
make_sack_msg(bundle_id, acked_chunks_list) ==
    LET w == _compute_sack_window(acked_chunks_list)
    IN  [msg_type |-> "SACK", bundle_id |-> bundle_id,
         recv_watermark |-> w[1], sack_bitmap |-> w[2]]

\* protocol.make_delivered_msg
make_delivered_msg(bundle_id) == [msg_type |-> "DELIVERED", bundle_id |-> bundle_id]

\* protocol.make_custody_req_msg.  A float of seconds is held in tenths of a
\* second (TtlUnit per second); ranges is a sequence of pairs of integers.
TtlUnit == 10
make_custody_req_msg(bundle_id, ranges, ttl_remaining) ==
    [msg_type |-> "CUSTODY_REQ", bundle_id |-> bundle_id, ranges |-> ranges,
     ttl_remaining |-> ttl_remaining]

\* protocol.make_custody_ack_msg (the nonce, secrets.randbits(64), is left out)
make_custody_ack_msg(bundle_id, ranges) ==
    [msg_type |-> "CUSTODY_ACK", bundle_id |-> bundle_id, ranges |-> ranges]

\* What a handler or a decoder has when there is no message.
None == [msg_type |-> "None"]

\* message["bundle_id"][:16].encode("utf-8").ljust(16, b"\0")
BundleIdBytes(bundle_id) ==
    [i \in 1..16 |-> IF i <= Len(bundle_id) THEN bundle_id[i] ELSE 0]

\* BundleIdStr without the rstrip: the 16 bytes as they are.
BundleIdStr_Raw(bytes) == bytes

\* header[1].rstrip(b"\0").decode("utf-8")
BundleIdStr(bytes) ==
    LET kept == {i \in 1..Len(bytes) : bytes[i] # 0}
        n == IF kept = {} THEN 0 ELSE CHOOSE i \in kept : \A j \in kept : j <= i
    IN  SubSeq(bytes, 1, n)

\* len(str(n)) of an integer
RECURSIVE Digits(_)
Digits(n) == IF n < 0 THEN 1 + Digits(-n) ELSE IF n < 10 THEN 1 ELSE 1 + Digits(n \div 10)

\* len(json.dumps(ranges)): "[[a, b], [c, d]]"
RECURSIVE JsonItems(_, _, _)
JsonItems(ranges, lo, hi) ==
    IF lo > hi THEN 0
    ELSE IF lo = hi
         THEN 4 + Digits(ranges[lo][1]) + Digits(ranges[lo][2])
              + (IF lo < Len(ranges) THEN 2 ELSE 0)
         ELSE LET mid == (lo + hi) \div 2
              IN  JsonItems(ranges, lo, mid) + JsonItems(ranges, mid + 1, hi)
JsonLen(ranges) == 2 + JsonItems(ranges, 1, Len(ranges))

\* int(message.get("ttl_remaining", 0)): truncation toward zero
WholeSeconds(ttl_remaining) ==
    IF ttl_remaining >= 0 THEN ttl_remaining \div TtlUnit
    ELSE -((-ttl_remaining) \div TtlUnit)

\* NetworkIO._serialize_message: the datagram, as its fields in wire order and
\* its length in bytes.  A u32 is held as <<high 16 bits, low 16 bits>>; the
\* JSON text of a list of ranges is held as the list (body) and the length of
\* the text (ranges_len).
_serialize_message(message) ==
    CASE message.msg_type = "DATA" ->
           [type |-> 1, bundle_id |-> BundleIdBytes(message.bundle_id),
            chunk_id |-> message.chunk_id, total_chunks |-> message.total_chunks,
            block_id |-> message.block_id, k |-> message.k, r |-> message.r,
            checksum |-> message.checksum, flags |-> 0,
            payload_len |-> Len(message.payload), body |-> message.payload,
            len |-> DataHeaderLen + Len(message.payload)]
      [] message.msg_type = "SACK" ->
           LET bitmap == IF Len(message.sack_bitmap) > MAX_SACK_WINDOW_BITS \div 8
                         THEN SubSeq(message.sack_bitmap, 1, MAX_SACK_WINDOW_BITS \div 8)
                         ELSE message.sack_bitmap
           IN  [type |-> 2, bundle_id |-> BundleIdBytes(message.bundle_id),
                raw_watermark |-> IF message.recv_watermark < 0
                                  THEN <<65535, 65535>>
                                  ELSE << message.recv_watermark \div 65536,
                                          message.recv_watermark % 65536 >>,
                bitmap_len |-> Len(bitmap), body |-> bitmap,
                len |-> 23 + Len(bitmap)]
      [] message.msg_type = "CUSTODY_REQ" ->
           [type |-> 3, bundle_id |-> BundleIdBytes(message.bundle_id),
            ttl_remaining |-> WholeSeconds(message.ttl_remaining),
            ranges_len |-> JsonLen(message.ranges), body |-> message.ranges,
            len |-> 23 + JsonLen(message.ranges)]
      [] message.msg_type = "CUSTODY_ACK" ->
           [type |-> 4, bundle_id |-> BundleIdBytes(message.bundle_id),
            ranges_len |-> JsonLen(message.ranges), body |-> message.ranges,
            len |-> 27 + JsonLen(message.ranges)]
      [] message.msg_type = "DELIVERED" ->
           [type |-> 5, bundle_id |-> BundleIdBytes(message.bundle_id), len |-> 17]

\* The bytes struct.unpack needs of a datagram of each type.
HeaderLen(type) ==
    CASE type = 1 -> DataHeaderLen
      [] type = 2 -> 23
      [] type = 3 -> 23
      [] type = 4 -> 27
      [] type = 5 -> 17

\* What json.loads makes of bytes that are no JSON text: it raises.
NotJson == [msg_type |-> "NotJson"]

\* NetworkIO._deserialize_message.  A datagram shorter than its header makes
\* struct.unpack raise, a JSON text cut short makes json.loads raise, and
\* every exception gives None; a DATA payload or SACK bitmap cut short is
\* taken as far as it goes.  A datagram of no known type is [type, len, json]:
\* json is the value its bytes are the JSON text of, or NotJson.
_deserialize_message(data) ==
    IF data.len < 1 THEN None
    ELSE IF data.type \notin 1..5
         THEN IF data.json = NotJson THEN None ELSE data.json
    ELSE IF data.len < HeaderLen(data.type) THEN None
    ELSE
    CASE data.type = 1 ->
           [msg_type |-> "DATA", bundle_id |-> BundleIdStr(data.bundle_id),
            chunk_id |-> data.chunk_id, total_chunks |-> data.total_chunks,
            block_id |-> data.block_id, k |-> data.k, r |-> data.r,
            checksum |-> data.checksum,
            payload |-> SubSeq(data.body, 1,
                               Min(data.payload_len,
                                   Min(Len(data.body), data.len - DataHeaderLen)))]
      [] data.type = 2 ->
           LET recv_watermark == IF data.raw_watermark = <<65535, 65535>> THEN -1
                                 ELSE data.raw_watermark[1] * 65536 + data.raw_watermark[2]
               bitmap == SubSeq(data.body, 1,
                                Min(data.bitmap_len, Min(Len(data.body), data.len - 23)))
               base == recv_watermark + 1
               acked_chunks ==
                   (0..recv_watermark)
                   \cup {base + (j - 1) * 8 + bit_pos :
                           <<j, bit_pos>> \in
                             {q \in (1..Len(bitmap)) \X (0..7) :
                                (bitmap[q[1]] \div 2^(7 - q[2])) % 2 = 1}}
           IN  [msg_type |-> "SACK", bundle_id |-> BundleIdStr(data.bundle_id),
                recv_watermark |-> recv_watermark, sack_bitmap |-> bitmap,
                acked_chunks |-> acked_chunks]
      [] data.type = 3 ->
           IF Min(data.ranges_len, data.len - 23) # JsonLen(data.body) THEN None
           ELSE [msg_type |-> "CUSTODY_REQ", bundle_id |-> BundleIdStr(data.bundle_id),
                 ttl_remaining |-> data.ttl_remaining, ranges |-> data.body]
      [] data.type = 4 ->
           IF Min(data.ranges_len, data.len - 27) # JsonLen(data.body) THEN None
           ELSE [msg_type |-> "CUSTODY_ACK", bundle_id |-> BundleIdStr(data.bundle_id),
                 ranges |-> data.body]
      [] data.type = 5 ->
           [msg_type |-> "DELIVERED", bundle_id |-> BundleIdStr(data.bundle_id)]

\* NetworkIO.send_message's size check: whether the datagram is handed to the socket.
Fits(message) == _serialize_message(message).len <= MaxDatagram

\* Whether struct.pack takes the fields of the message: a value outside its
\* B, H or I field raises struct.error.
Packable(message) ==
    CASE message.msg_type = "DATA" ->
           /\ message.chunk_id >= 0 /\ message.total_chunks >= 0 /\ message.block_id >= 0
           /\ message.k \in 0..65535 /\ message.r \in 0..65535
           /\ Len(message.payload) <= 65535
      [] message.msg_type = "CUSTODY_REQ" ->
           /\ WholeSeconds(message.ttl_remaining) >= 0
           /\ JsonLen(message.ranges) <= 65535
      [] message.msg_type = "CUSTODY_ACK" -> JsonLen(message.ranges) <= 65535
      [] OTHER -> TRUE

\* NetworkIO.send_message: the datagram the socket takes, or None.
send_message(message) ==
    IF Packable(message) /\ Fits(message) THEN _serialize_message(message) ELSE None

\* NetworkIO._receive_loop on one datagram: the message it hands to the
\* message handler, or None (`if message:` also stops an empty JSON value).
_receive_loop(data) ==
    LET message == _deserialize_message(data)
    IN  IF message = None \/ message = <<>> THEN None ELSE message


\* -------------------------------------------------------------- the Store
\* SQLiteStorage.update_bundle_state: UPDATE ... WHERE bundle_id = ?, which
\* touches no row when the bundle has none.
update_bundle_state(bundles, bundle_id, new_state) ==
    IF bundle_id \in DOMAIN bundles
    THEN [bundles EXCEPT ![bundle_id].state = new_state]
    ELSE bundles

\* SQLiteStorage.update_bundle_stats
update_bundle_stats(bundles, bundle_id, bytes_sent, chunks_retransmitted) ==
    IF bundle_id \in DOMAIN bundles
    THEN [bundles EXCEPT ![bundle_id].bytes_sent = bytes_sent,
                         ![bundle_id].chunks_retransmitted = chunks_retransmitted]
    ELSE bundles

\* SQLiteStorage.save_bundle: INSERT OR REPLACE of the whole row.
save_bundle(bundles, bundle_id, row) ==
    [z \in (DOMAIN bundles) \cup {bundle_id} |-> IF z = bundle_id THEN row ELSE bundles[z]]

\* SQLiteStorage.load_chunks_for_bundle, as chunk_id -> row.
load_chunks_for_bundle(chunks, bundle_id) ==
    IF bundle_id \in DOMAIN chunks THEN chunks[bundle_id] ELSE EmptyMap

\* SQLiteStorage.list_bundles_by_state
list_bundles_by_state(bundles, state) ==
    {z \in DOMAIN bundles : bundles[z].state = state}

\* SQLiteStorage.cleanup_expired_bundles, `expired` being the rows its SELECT finds.
cleanup_expired_bundles(store, expired) ==
    [store EXCEPT !.bundles = Drop(@, expired), !.chunks = Drop(@, expired)]

\* ------------------------------------------------------------ Send Engine
\* SendState as send_file and resume_transfers construct it.
NewSendState(cfg, total_chunks, bytes_sent, chunks_retransmitted) ==
    [window_start |-> 0,
     window_end |-> Min(cfg.window_size, total_chunks),
     window_size |-> cfg.window_size,
     acked_chunks |-> {},
     retransmit_queue |-> <<>>,
     chunk_timers |-> EmptyMap,
     send_timestamps |-> EmptyMap,
     retransmitted_chunks |-> {},
     timeout_interval |-> cfg.base_rto_ms * FP,
     smoothed_rtt |-> InitialSrttMs * FP,
     rtt_variance |-> InitialRttVarMs * FP,
     total_chunks |-> total_chunks,
     bytes_sent |-> bytes_sent,
     chunks_retransmitted |-> chunks_retransmitted,
     completed |-> FALSE]

\* The cache entry _send_window works from: _chunk_cache, or the Store's rows
\* when the cache has no (or an empty) entry.
ChunkDict(snd, bundle_id) ==
    IF bundle_id \in DOMAIN snd.chunk_cache /\ DOMAIN snd.chunk_cache[bundle_id] # {}
    THEN snd.chunk_cache[bundle_id]
    ELSE load_chunks_for_bundle(snd.chunks, bundle_id)

\* SendWindowIds walking every chunk id from window_start to the last one.
SendWindowIds_ToEnd(ss, bundle_id, chunk_dict, ok) ==
    {c \in ss.window_start .. (ss.total_chunks - 1) :
        /\ c \notin ss.acked_chunks
        /\ (c \in DOMAIN ss.chunk_timers => ss.chunk_timers[c] <= 0)
        /\ c \in DOMAIN chunk_dict
        /\ c \in ok
        /\ Fits(make_data_msg(bundle_id, chunk_dict[c], ss.total_chunks))}

\* The chunk ids one pass of _send_window emits; `ok` holds the chunk ids for
\* which the socket's sendto succeeds.
SendWindowIds(ss, bundle_id, chunk_dict, ok) ==
    {c \in ss.window_start .. (ss.window_end - 1) :
        /\ c \notin ss.acked_chunks
        /\ (c \in DOMAIN ss.chunk_timers => ss.chunk_timers[c] <= 0)
        /\ c \in DOMAIN chunk_dict
        /\ c \in ok
        /\ Fits(make_data_msg(bundle_id, chunk_dict[c], ss.total_chunks))}

\* SendEngine._send_window: the node afterwards and the DATA it emitted.
_send_window(snd, bundle_id, ok) ==
    IF bundle_id \notin DOMAIN snd.active_sends THEN [snd |-> snd, out |-> {}]
    ELSE
      LET ss == snd.active_sends[bundle_id]
          chunk_dict == ChunkDict(snd, bundle_id)
          sent == SendWindowIds(ss, bundle_id, chunk_dict, ok)
          ss2 == [ss EXCEPT
                    !.chunk_timers = Put(@, sent, ss.timeout_interval),
                    !.send_timestamps = Put(@, sent, 0),
                    !.bytes_sent = @ + SumLen([i \in 1..Cardinality(sent) |->
                                        chunk_dict[Sorted(sent)[i]].payload])]
      IN  [snd |-> [snd EXCEPT !.active_sends[bundle_id] = ss2,
                               !.chunk_cache = save_bundle(@, bundle_id, chunk_dict)],
           out |-> {make_data_msg(bundle_id, chunk_dict[c], ss.total_chunks) : c \in sent}]

\* SendEngine.send_file followed by Node.send_file's registration of the
\* destination.
send_file(snd, cfg, file_data, bundle_id, fec_enabled, ok) ==
    LET use_fec == fec_enabled /\ cfg.fec.enabled
        chunks == _create_chunks(file_data, cfg, use_fec)
        total == Cardinality(DOMAIN chunks)
        row == [state |-> "sending", total_chunks |-> total,
                file_size |-> Len(file_data), fec_enabled |-> use_fec,
                k |-> IF use_fec THEN cfg.fec.k ELSE 0,
                r |-> IF use_fec THEN cfg.fec.r ELSE 0,
                bytes_sent |-> 0, chunks_retransmitted |-> 0]
        snd1 == [snd EXCEPT
                   !.chunk_cache = save_bundle(@, bundle_id, chunks),
                   !.bundles = save_bundle(@, bundle_id, row),
                   !.chunks = save_bundle(@, bundle_id, chunks),
                   !.active_sends = save_bundle(@, bundle_id,
                                       NewSendState(cfg, total, 0, 0))]
        res == _send_window(snd1, bundle_id, ok)
    IN  [snd |-> [res.snd EXCEPT !.send_destinations = @ \cup {bundle_id}],
         out |-> res.out]

\* The Store when the process ends inside send_file after save_bundle and
\* `saved` of the save_chunk calls of its loop: each call is a transaction of
\* its own, the rows go in in the order of the chunk list (ascending chunk id).
send_file_stopped(snd, cfg, file_data, bundle_id, fec_enabled, saved) ==
    LET use_fec == fec_enabled /\ cfg.fec.enabled
        chunks == _create_chunks(file_data, cfg, use_fec)
        total == Cardinality(DOMAIN chunks)
        row == [state |-> "sending", total_chunks |-> total,
                file_size |-> Len(file_data), fec_enabled |-> use_fec,
                k |-> IF use_fec THEN cfg.fec.k ELSE 0,
                r |-> IF use_fec THEN cfg.fec.r ELSE 0,
                bytes_sent |-> 0, chunks_retransmitted |-> 0]
        rows == [c \in {d \in DOMAIN chunks : d < saved} |-> chunks[c]]
    IN  [bundles |-> save_bundle(snd.bundles, bundle_id, row),
         chunks |-> IF saved = 0 THEN snd.chunks
                    ELSE save_bundle(snd.chunks, bundle_id, rows)]

\* SendEngine._update_rtt_estimates
_update_rtt_estimates(ss, rtt, cfg) ==
    LET first == ss.smoothed_rtt = 0 \/ ss.smoothed_rtt = InitialSrttMs * FP
        rtt_variance == IF first THEN rtt \div 2
                        ELSE (3 * ss.rtt_variance + Abs(ss.smoothed_rtt - rtt)) \div 4
        smoothed_rtt == IF first THEN rtt ELSE (7 * ss.smoothed_rtt + rtt) \div 8
        rto == smoothed_rtt + 4 * rtt_variance
    IN  [ss EXCEPT !.smoothed_rtt = smoothed_rtt,
                   !.rtt_variance = rtt_variance,
                   !.timeout_interval = Max(MinRtoMs * FP, Min(rto, cfg.max_rto_ms * FP))]

\* Whether handle_sack takes an RTT sample from newly acked chunk c.
TakesSample(ss, c) ==
    c \in DOMAIN ss.send_timestamps /\ c \notin ss.retransmitted_chunks

\* handle_sack's loop over newly_acked, as far as the estimates go.
RECURSIVE SampleAll(_, _, _)
SampleAll(ss, ids, cfg) ==
    IF ids = <<>> THEN ss
    ELSE SampleAll(IF TakesSample(ss, Head(ids))
                   THEN _update_rtt_estimates(ss, ss.send_timestamps[Head(ids)], cfg)
                   ELSE ss,
                   Tail(ids), cfg)

\* The while loop moving one chunk at most.
AdvanceWindowStart_Once(window_start, total_chunks, acked_chunks) ==
    IF window_start < total_chunks /\ window_start \in acked_chunks
    THEN window_start + 1
    ELSE window_start

\* The while loop moving past the window's first chunk, acknowledged or not.
AdvanceWindowStart_Always(window_start, total_chunks, acked_chunks) ==
    IF window_start < total_chunks THEN window_start + 1 ELSE window_start

\* handle_sack's while loop.
RECURSIVE AdvanceWindowStart(_, _, _)
AdvanceWindowStart(window_start, total_chunks, acked_chunks) ==
    IF window_start < total_chunks /\ window_start \in acked_chunks
    THEN AdvanceWindowStart(window_start + 1, total_chunks, acked_chunks)
    ELSE window_start

\* SendEngine._complete_transfer
_complete_transfer(snd, bundle_id) ==
    IF bundle_id \notin DOMAIN snd.active_sends THEN snd
    ELSE IF snd.active_sends[bundle_id].completed THEN snd
    ELSE LET ss == snd.active_sends[bundle_id]
         IN  [snd EXCEPT
                !.active_sends[bundle_id].completed = TRUE,
                !.bundles = update_bundle_stats(
                                update_bundle_state(@, bundle_id, "delivered"),
                                bundle_id, ss.bytes_sent, ss.chunks_retransmitted),
                !.chunk_cache = Drop(@, {bundle_id})]

\* The SACK's list taking the place of acked_chunks.
MergeAcked_Replace(own, acked_chunks) == acked_chunks

\* send_state.acked_chunks.update(acked_chunks)
MergeAcked(own, acked_chunks) == own \cup acked_chunks

\* The SendState after handle_sack's bookkeeping, before completion and sending.
SackState(ss, acked_chunks, cfg) ==
    LET newly_acked == acked_chunks \ ss.acked_chunks
        s1 == [ss EXCEPT !.acked_chunks = MergeAcked(@, acked_chunks)]
        s2 == SampleAll(s1, Sorted(newly_acked), cfg)
        s3 == [s2 EXCEPT
                 !.chunk_timers = Drop(@, newly_acked),
                 !.send_timestamps = Drop(@, newly_acked),
                 !.retransmitted_chunks = @ \ newly_acked,
                 !.timeout_interval =
                     IF newly_acked # {}
                     THEN Max(s2.smoothed_rtt + 4 * s2.rtt_variance, cfg.base_rto_ms * FP)
                     ELSE @]
        window_start == AdvanceWindowStart(s3.window_start, s3.total_chunks, s3.acked_chunks)
    IN  [s3 EXCEPT !.window_start = window_start,
                   !.window_end = Min(window_start + s3.window_size, s3.total_chunks)]

\* SendEngine.handle_sack
handle_sack(snd, cfg, msg, ok) ==
    LET bundle_id == msg.bundle_id IN
    IF bundle_id \notin DOMAIN snd.active_sends THEN [snd |-> snd, out |-> {}]
    ELSE
      LET ss == snd.active_sends[bundle_id]
          s4 == SackState(ss, msg.acked_chunks, cfg)
          snd1 == [snd EXCEPT !.active_sends[bundle_id] = s4]
      IN  IF Cardinality(s4.acked_chunks) >= s4.total_chunks
          THEN [snd |-> _complete_transfer(snd1, bundle_id), out |-> {}]
          ELSE IF s4.window_end > ss.window_end
          THEN _send_window(snd1, bundle_id, ok)
          ELSE [snd |-> snd1, out |-> {}]

\* SendEngine.handle_delivered (CustodyManager.handle_delivered finds no
\* custody record: nothing in the program sends CUSTODY_REQ).
handle_delivered(snd, msg) ==
    IF msg.bundle_id \in DOMAIN snd.active_sends
    THEN _complete_transfer(snd, msg.bundle_id)
    ELSE snd

\* CustodyManager.handle_custody_ack
handle_custody_ack(snd, msg) ==
    [snd EXCEPT !.bundles = update_bundle_state(@, msg.bundle_id, "custody_transferred")]


\* SendEngine.check_timeouts for one SendState.  chunk_timers is walked in
\* ascending chunk id; the order only decides the order inside one batch of
\* retransmissions, which all leave in the same call.
\* CheckTimeoutsOne doubling the timeout interval without the cap.
CheckTimeoutsOne_NoCap(ss, cfg) ==
    IF ss.completed THEN ss
    ELSE
      LET live == {c \in DOMAIN ss.chunk_timers : c \notin ss.acked_chunks}
          timed_out_chunks == {c \in live : ss.chunk_timers[c] <= 0}
          s1 == [ss EXCEPT !.chunk_timers = Drop(@, (DOMAIN @) \ live)]
      IN  IF timed_out_chunks = {} THEN s1
          ELSE [s1 EXCEPT
                  !.retransmit_queue = @ \o Sorted(timed_out_chunks),
                  !.chunk_timers = Drop(@, timed_out_chunks),
                  !.timeout_interval = 2 * @,
                  !.chunks_retransmitted =
                      Min(@ + Cardinality(timed_out_chunks), MaxRetransmitted)]

\* CheckTimeoutsOne leaving the timers of the chunks it enqueues in place.
CheckTimeoutsOne_KeepTimers(ss, cfg) ==
    IF ss.completed THEN ss
    ELSE
      LET live == {c \in DOMAIN ss.chunk_timers : c \notin ss.acked_chunks}
          timed_out_chunks == {c \in live : ss.chunk_timers[c] <= 0}
          s1 == [ss EXCEPT !.chunk_timers = Drop(@, (DOMAIN @) \ live)]
      IN  IF timed_out_chunks = {} THEN s1
          ELSE [s1 EXCEPT
                  !.retransmit_queue = @ \o Sorted(timed_out_chunks),
                  !.timeout_interval = Min(2 * @, cfg.max_rto_ms * FP),
                  !.chunks_retransmitted =
                      Min(@ + Cardinality(timed_out_chunks), MaxRetransmitted)]

CheckTimeoutsOne(ss, cfg) ==
    IF ss.completed THEN ss
    ELSE
      LET live == {c \in DOMAIN ss.chunk_timers : c \notin ss.acked_chunks}
          timed_out_chunks == {c \in live : ss.chunk_timers[c] <= 0}
          s1 == [ss EXCEPT !.chunk_timers = Drop(@, (DOMAIN @) \ live)]
      IN  IF timed_out_chunks = {} THEN s1
          ELSE [s1 EXCEPT
                  !.retransmit_queue = @ \o Sorted(timed_out_chunks),
                  !.chunk_timers = Drop(@, timed_out_chunks),
                  !.timeout_interval = Min(2 * @, cfg.max_rto_ms * FP),
                  !.chunks_retransmitted =
                      Min(@ + Cardinality(timed_out_chunks), MaxRetransmitted)]

\* SendEngine.check_timeouts
check_timeouts(snd, cfg) ==
    [snd EXCEPT !.active_sends =
        [z \in DOMAIN @ |-> CheckTimeoutsOne(@[z], cfg)]]

\* The chunk ids of a retransmit queue.
QueueIds(q) == {q[i] : i \in 1..Len(q)}

\* SendEngine.retransmit_chunks
retransmit_chunks(snd, bundle_id, ok) ==
    IF bundle_id \notin DOMAIN snd.active_sends THEN [snd |-> snd, out |-> {}]
    ELSE IF snd.active_sends[bundle_id].completed THEN [snd |-> snd, out |-> {}]
    ELSE
      LET ss == snd.active_sends[bundle_id]
          chunk_dict == load_chunks_for_bundle(snd.chunks, bundle_id)
          sent == {c \in QueueIds(ss.retransmit_queue) :
                     /\ c \notin ss.acked_chunks
                     /\ c \in DOMAIN chunk_dict
                     /\ c \in ok
                     /\ Fits(make_data_msg(bundle_id, chunk_dict[c], ss.total_chunks))}
      IN  [snd |-> [snd EXCEPT !.active_sends[bundle_id] =
                      [ss EXCEPT !.retransmit_queue = <<>>,
                                 !.chunk_timers = Put(@, sent, ss.timeout_interval),
                                 !.retransmitted_chunks = @ \cup sent]],
           out |-> {make_data_msg(bundle_id, chunk_dict[c], ss.total_chunks) : c \in sent}]

\* retransmit_chunks for every registered destination, in turn.
RECURSIVE RetransmitAll(_, _, _)
RetransmitAll(snd, ids, ok) ==
    IF ids = {} THEN [snd |-> snd, out |-> {}]
    ELSE LET b == CHOOSE z \in ids : TRUE
             one == retransmit_chunks(snd, b, ok)
             rest == RetransmitAll(one.snd, ids \ {b}, ok)
         IN  [snd |-> rest.snd, out |-> one.out \cup rest.out]

\* Node._check_timeouts, the Send Engine's part (Tick adds
\* CustodyManager.check_retry_timers).
_check_timeouts(snd, cfg, ok) ==
    RetransmitAll(check_timeouts(snd, cfg), snd.send_destinations, ok)

\* SendEngine.cleanup_completed_transfers
cleanup_completed_transfers(snd) ==
    [snd EXCEPT !.active_sends =
        Drop(@, {z \in DOMAIN @ : @[z].completed})]

\* Node._periodic_cleanup
_periodic_cleanup(snd, expired) ==
    cleanup_expired_bundles(cleanup_completed_transfers(snd), expired)

\* SendEngine.resume_transfers
resume_transfers(snd, cfg) ==
    LET sending_bundles == list_bundles_by_state(snd.bundles, "sending")
    IN  [snd EXCEPT !.active_sends =
            [z \in (DOMAIN @) \cup sending_bundles |->
                IF z \in sending_bundles
                THEN NewSendState(cfg, snd.bundles[z].total_chunks,
                                  snd.bundles[z].bytes_sent,
                                  snd.bundles[z].chunks_retransmitted)
                ELSE @[z]]]

\* A node built over an existing Store (Node.__init__) and started (Node.start).
StartedSender(store, cfg) ==
    resume_transfers([active_sends |-> EmptyMap, chunk_cache |-> EmptyMap,
                      send_destinations |-> {},
                      bundles |-> store.bundles, chunks |-> store.chunks], cfg)

\* The clock moving on by `step`: deadlines come closer (0 = reached) and the
\* time since a chunk's recorded send grows, counted up to MaxAge.
Elapse(ss, step) ==
    [ss EXCEPT !.chunk_timers = [c \in DOMAIN @ |-> Max(@[c] - step * FP, 0)],
               !.send_timestamps = [c \in DOMAIN @ |-> Min(@[c] + step * FP, MaxAge * FP)]]

\* ---------------------------------------------------------- Receive Engine
\* _infer_block_and_data_count without the upper bound num_data <= k * B.
_infer_block_and_data_count_NoUpper(total_chunks, k, r) ==
    LET fits == {B \in 1..total_chunks :
                    LET num_data == total_chunks - r * B
                    IN  num_data > 0 /\ k * (B - 1) < num_data}
    IN  IF fits = {} THEN <<0, 0>>
        ELSE LET B == CHOOSE x \in fits : \A y \in fits : x <= y
             IN  <<B, total_chunks - r * B>>

\* ReceiveEngine._infer_block_and_data_count: <<B, num_data>>, <<0, 0>> for None.
_infer_block_and_data_count(total_chunks, k, r) ==
    LET fits == {B \in 1..total_chunks :
                    LET num_data == total_chunks - r * B
                    IN  num_data > 0 /\ k * (B - 1) < num_data /\ num_data <= k * B}
    IN  IF fits = {} THEN <<0, 0>>
        ELSE LET B == CHOOSE x \in fits : \A y \in fits : x <= y
             IN  <<B, total_chunks - r * B>>

\* ReceiveEngine._create_receive_state: the ReceiveState and the bundle row.
_create_receive_state(total_chunks, k, r, fec_config_enabled) ==
    LET wants == k # 0 /\ r # 0 /\ fec_config_enabled
        inferred == _infer_block_and_data_count(total_chunks, k, r)
        fec_enabled == wants /\ inferred[1] # 0
    IN  [state |-> [total_chunks |-> total_chunks,
                    fec_enabled |-> fec_enabled,
                    k |-> IF wants /\ ~fec_enabled THEN 0 ELSE k,
                    r |-> IF wants /\ ~fec_enabled THEN 0 ELSE r,
                    num_data_chunks |-> IF fec_enabled THEN inferred[2] ELSE total_chunks,
                    received_chunks |-> {},
                    data_chunks |-> EmptyMap,
                    parity_chunks |-> EmptyMap,
                    delivered |-> FALSE,
                    write_buffer |-> <<>>],
         row |-> [state |-> "receiving", total_chunks |-> total_chunks,
                  file_size |-> 0, fec_enabled |-> fec_enabled,
                  k |-> IF fec_enabled THEN k ELSE 0,
                  r |-> IF fec_enabled THEN r ELSE 0,
                  bytes_sent |-> 0, chunks_retransmitted |-> 0]]

\* _send_sack listing every chunk id of the bundle, received or not.
SackFor_All(bundle_id, state) == make_sack_msg(bundle_id, 0 .. (state.total_chunks - 1))

\* ReceiveEngine._send_sack's message for a ReceiveState.
SackFor(bundle_id, state) == make_sack_msg(bundle_id, state.received_chunks)

\* SQLiteStorage.save_chunks_bulk: INSERT OR REPLACE of each record, in order.
RECURSIVE save_chunks_bulk(_, _)
save_chunks_bulk(rows, records) ==
    IF records = <<>> THEN rows
    ELSE save_chunks_bulk(save_bundle(rows, Head(records).chunk_id, Head(records)),
                          Tail(records))

\* ReceiveEngine._try_fec_reconstruct: the ReceiveState afterwards and the
\* records it saved (none or one).
_try_fec_reconstruct(state, block_id) ==
    IF ~state.fec_enabled \/ state.k <= 0 \/ state.r <= 0
       \/ block_id \notin DOMAIN state.parity_chunks
    THEN [state |-> state, saved |-> <<>>]
    ELSE
      LET start == block_id * state.k
          end == Min(start + state.k, state.num_data_chunks)
          expected_ids == start .. (end - 1)
          present_ids == Sorted({cid \in expected_ids : cid \in DOMAIN state.data_chunks})
          missing_ids == {cid \in expected_ids : cid \notin DOMAIN state.data_chunks}
      IN  IF Cardinality(missing_ids) # 1 THEN [state |-> state, saved |-> <<>>]
          ELSE
            LET missing_id == CHOOSE cid \in missing_ids : TRUE
                parity_payload == state.parity_chunks[block_id][1]
                known_payloads == [i \in 1..Len(present_ids) |->
                                      state.data_chunks[present_ids[i]]]
                recovered == _xor_bytes(parity_payload, known_payloads)
            IN  [state |-> [state EXCEPT
                              !.data_chunks = save_bundle(@, missing_id, recovered),
                              !.received_chunks = @ \cup {missing_id}],
                 saved |-> << [chunk_id |-> missing_id, is_parity |-> FALSE,
                               block_id |-> block_id, k |-> state.k, r |-> state.r,
                               payload |-> recovered,
                               checksum |-> crc32(recovered)] >>]

\* The bytes _maybe_deliver writes, when no data chunk is missing.
Assembled(state) ==
    LET num_data == IF state.num_data_chunks = 0 THEN state.total_chunks
                    ELSE state.num_data_chunks
    IN  Concat([i \in 1..num_data |-> state.data_chunks[i - 1]])

\* Deliverable without the test of the delivered flag.
Deliverable_Again(state) ==
    LET num_data == IF state.num_data_chunks = 0 THEN state.total_chunks
                    ELSE state.num_data_chunks
    IN  \A cid \in 0..(num_data - 1) : cid \in DOMAIN state.data_chunks

\* Whether _maybe_deliver delivers.
Deliverable(state) ==
    LET num_data == IF state.num_data_chunks = 0 THEN state.total_chunks
                    ELSE state.num_data_chunks
    IN  ~state.delivered /\ \A cid \in 0..(num_data - 1) : cid \in DOMAIN state.data_chunks


\* ReceiveEngine._maybe_deliver: the node afterwards and what it sent;
\* `writable` is whether opening and writing the output file succeeds.
_maybe_deliver(rcv, bundle_id, writable) ==
    LET state == rcv.active_receives[bundle_id] IN
    IF ~Deliverable(state) THEN [rcv |-> rcv, out |-> {}]
    ELSE IF ~writable THEN [rcv |-> rcv, out |-> {}]
    ELSE [rcv |-> [rcv EXCEPT
                     !.files = save_bundle(@, bundle_id, Assembled(state)),
                     !.bundles = update_bundle_state(@, bundle_id, "delivered"),
                     !.active_receives[bundle_id].delivered = TRUE],
          out |-> {m \in {make_delivered_msg(bundle_id),
                          make_custody_ack_msg(bundle_id, <<>>)} : Fits(m)}]

\* Whether handle_data takes the message for a chunk it already has.
\* The duplicate test left out: every DATA message is taken as new.
IsDuplicate_Never(state, chunk_id) == FALSE

\* handle_data's duplicate test.
IsDuplicate(state, chunk_id) == chunk_id \in state.received_chunks

\* handle_data from the duplicate test to the write batch: the ReceiveState
\* and the records _try_fec_reconstruct saved.
Accept(state, msg) ==
    LET chunk_id == msg.chunk_id
        block_id == msg.block_id
        as_data == ~(state.fec_enabled /\ state.k > 0 /\ state.num_data_chunks > 0)
                   \/ chunk_id < state.num_data_chunks
        s1 == [state EXCEPT
                 !.received_chunks = @ \cup {chunk_id},
                 !.data_chunks = IF as_data THEN save_bundle(@, chunk_id, msg.payload)
                                 ELSE @,
                 !.parity_chunks =
                     IF as_data THEN @
                     ELSE save_bundle(@, block_id,
                              (IF block_id \in DOMAIN @ THEN @[block_id] ELSE <<>>)
                              \o <<msg.payload>>),
                 !.write_buffer = Append(@,
                     [chunk_id |-> chunk_id,
                      is_parity |-> state.fec_enabled /\ chunk_id >= state.num_data_chunks,
                      block_id |-> block_id, k |-> state.k, r |-> state.r,
                      payload |-> msg.payload, checksum |-> msg.checksum])]
    IN  IF state.fec_enabled THEN _try_fec_reconstruct(s1, block_id)
        ELSE [state |-> s1, saved |-> <<>>]

\* ReceiveEngine.handle_data: the node afterwards, the messages it sent, and
\* the chunk ids of the rows it wrote to the Store, in order.
handle_data(rcv, fec_config_enabled, msg, writable) ==
    LET bundle_id == msg.bundle_id
        known == bundle_id \in DOMAIN rcv.active_receives
        created == _create_receive_state(msg.total_chunks, msg.k, msg.r, fec_config_enabled)
        state == IF known THEN rcv.active_receives[bundle_id] ELSE created.state
        rcv1 == IF known THEN rcv
                ELSE [rcv EXCEPT
                        !.active_receives = save_bundle(@, bundle_id, created.state),
                        !.bundles = save_bundle(@, bundle_id, created.row)]
    IN  IF IsDuplicate(state, msg.chunk_id)
        THEN [rcv |-> rcv1,
              out |-> {m \in {SackFor(bundle_id, state)} : Fits(m)},
              written |-> <<>>]
        ELSE
          LET acc == Accept(state, msg)
              s2 == acc.state
              all_in == Cardinality(s2.received_chunks) = s2.total_chunks
              flush == Len(s2.write_buffer) >= WriteBatchLimit \/ all_in
              s3 == IF flush THEN [s2 EXCEPT !.write_buffer = <<>>] ELSE s2
              records == acc.saved \o (IF flush THEN s2.write_buffer ELSE <<>>)
              sack == \/ Cardinality(s3.received_chunks) % SackEvery = 0
                      \/ s3.write_buffer = <<>>
                      \/ all_in
              rcv2 == [rcv1 EXCEPT
                         !.active_receives[bundle_id] = s3,
                         !.chunks =
                             IF records = <<>> THEN @
                             ELSE save_bundle(@, bundle_id,
                                      save_chunks_bulk(
                                          load_chunks_for_bundle(@, bundle_id), records))]
              del == _maybe_deliver(rcv2, bundle_id, writable)
          IN  [rcv |-> del.rcv,
               out |-> {m \in {SackFor(bundle_id, s3)} : sack /\ Fits(m)} \cup del.out,
               written |-> [i \in 1..Len(records) |-> records[i].chunk_id]]

\* A receiving node built over an existing Store.
StartedReceiver(store) ==
    [active_receives |-> EmptyMap, bundles |-> store.bundles,
     chunks |-> store.chunks, files |-> store.files]


\* --------------------------------------------------------- custody manager
\* A CustodyManager is [config, active_records, custody_records, sent]:
\* its CustodyConfig, its in-memory records, the Store's custody_records table
\* and the CUSTODY_ACKs the socket took in the handler that ran last.  A
\* retry_timer is held as the ms left until it (0: now >= retry_timer).

\* CustodyManager._save_record: SQLiteStorage.save_custody_record (INSERT OR
\* REPLACE) and the memory cache.
_save_record(cm, record) ==
    [cm EXCEPT !.custody_records = save_bundle(@, record.bundle_id, record),
               !.active_records = save_bundle(@, record.bundle_id, record)]

\* CustodyManager.handle_custody_req: [cust, out]
handle_custody_req(cm, msg) ==
    LET record == [bundle_id |-> msg.bundle_id, owner_node |-> "self",
                   chunk_ranges |-> msg.ranges,
                   retry_timer |-> cm.config.backoff_base_sec * 1000,
                   retry_count |-> 0, max_retries |-> cm.config.max_retries,
                   state |-> "accepted"]
        ack_msg == make_custody_ack_msg(msg.bundle_id, msg.ranges)
        out == IF Fits(ack_msg) THEN {ack_msg} ELSE {}
    IN  [cust |-> [_save_record(cm, record) EXCEPT !.sent = out], out |-> out]

\* CustodyManager.handle_delivered
custody_handle_delivered(cm, msg) ==
    IF msg.bundle_id \in DOMAIN cm.active_records
       /\ cm.active_records[msg.bundle_id].state \notin {"complete", "failed"}
    THEN _save_record(cm, [cm.active_records[msg.bundle_id] EXCEPT !.state = "complete"])
    ELSE cm

\* CheckRetryTimer without the retry limit: an expired timer always counts a
\* retry.
CheckRetryTimer_NoLimit(cm, bundle_id) ==
    LET record == cm.active_records[bundle_id]
        retry_count == record.retry_count + 1
    IN  IF record.state \in {"complete", "failed"} THEN cm
        ELSE IF record.retry_timer > 0 THEN cm
        ELSE _save_record(cm,
                 [record EXCEPT !.retry_count = retry_count,
                                !.retry_timer =
                                    2^retry_count * cm.config.backoff_base_sec * 1000])

\* CheckRetryTimer re-arming with the retry count as it was before the
\* increment.
CheckRetryTimer_OldCount(cm, bundle_id) ==
    LET record == cm.active_records[bundle_id]
        retry_count == record.retry_count + 1
    IN  IF record.state \in {"complete", "failed"} THEN cm
        ELSE IF record.retry_timer > 0 THEN cm
        ELSE IF record.retry_count >= record.max_retries
             THEN _save_record(cm, [record EXCEPT !.state = "failed"])
             ELSE _save_record(cm,
                      [record EXCEPT !.retry_count = retry_count,
                                     !.retry_timer =
                                         2^record.retry_count
                                         * cm.config.backoff_base_sec * 1000])

\* One record's turn in the loop of CustodyManager.check_retry_timers.
CheckRetryTimer(cm, bundle_id) ==
    LET record == cm.active_records[bundle_id]
        retry_count == record.retry_count + 1
    IN  IF record.state \in {"complete", "failed"} THEN cm
        ELSE IF record.retry_timer > 0 THEN cm
        ELSE IF record.retry_count >= record.max_retries
             THEN _save_record(cm, [record EXCEPT !.state = "failed"])
             ELSE _save_record(cm,
                      [record EXCEPT !.retry_count = retry_count,
                                     !.retry_timer =
                                         2^retry_count * cm.config.backoff_base_sec * 1000])

\* CustodyManager.check_retry_timers
RECURSIVE CheckRetryTimers(_, _)
CheckRetryTimers(cm, bundle_ids) ==
    IF bundle_ids = {} THEN cm
    ELSE LET b == CHOOSE x \in bundle_ids : TRUE
         IN  CheckRetryTimers(CheckRetryTimer(cm, b), bundle_ids \ {b})
check_retry_timers(cm) == CheckRetryTimers(cm, DOMAIN cm.active_records)

\* `step` ms pass for the retry timers.
ElapseCustody(cm, step) ==
    LET Aged(records) ==
            [b \in DOMAIN records |->
                [records[b] EXCEPT !.retry_timer = Max(@ - step, 0)]]
    IN  [cm EXCEPT !.active_records = Aged(@), !.custody_records = Aged(@)]

\* Node.__init__ after a restart: a new CustodyManager over the same Store
\* (Node.start reloads no custody record).
StartedCustody(cm) == [cm EXCEPT !.active_records = EmptyMap, !.sent = {}]


\* ================================================================ state
VARIABLES
    cfg,        \* the configuration both nodes are built from
    file,       \* the content of the file handed to send_file
    snd,        \* sending node: active_sends, chunk_cache, send_destinations, Store
    rcv,        \* receiving node: active_receives, Store, output files
    to_rcv,     \* datagrams in flight to the receiving node
    to_snd,     \* datagrams in flight to the sending node
    used,       \* bundle ids uuid4 has handed out
    faults,     \* datagrams the channel has lost or duplicated      (history)
    restarts,   \* restarts of a node                                (history)
    emits,      \* bundle -> chunk -> DATA emissions by the current SendState,
                \* counted up to 2                                   (history)
    writes,     \* bundle -> chunk -> rows written to the receiver's Store,
                \* counted up to 2                                   (history)
    last,       \* what the step just taken handled                  (history)
    cust,       \* a node's CustodyManager: config, active_records, the Store's
                \* custody_records, and the CUSTODY_ACKs its socket took
    net         \* a NetworkIO pair: the message handed to send_message (and
                \* the chunk ids it was made from, for a SACK), the datagram
                \* on the wire, what the receive loop handed on
    ,
    threads     \* where each thread of a node is inside the handler it runs
                \* and what it holds in its locals; every thread idle in the
                \* specifications that take a handler as one step

vars == <<cfg, file, snd, rcv, to_rcv, to_snd, used, faults, restarts, emits, writes, last,
          cust, net, threads>>

\* Chunk ids a bundle of the model can have, and one id past them.
MaxChunks ==
    LET MaxR == CHOOSE r \in {p[2] : p \in FecParams} : \A p \in FecParams : p[2] <= r
    IN  MaxFileLen * (1 + MaxR)
ChunkIds == 0 .. (MaxChunks - 1)

EmptySender ==
    [active_sends |-> EmptyMap, chunk_cache |-> EmptyMap, send_destinations |-> {},
     bundles |-> EmptyMap, chunks |-> EmptyMap]
EmptyReceiver ==
    [active_receives |-> EmptyMap, bundles |-> EmptyMap, chunks |-> EmptyMap,
     files |-> EmptyMap]

\* What `last` says of a step: nothing, or that it handled
\*   "sack_new"   a SACK for an active bundle that acknowledged a new chunk,
\*   "sack_same"  a SACK listing exactly the chunks already acknowledged,
\*   "sack_fewer" a SACK listing only some of the chunks already acknowledged,
\*   "dup"        a DATA message for a chunk the receiver already had.
Quiet == "-"

\* A CustodyManager no CUSTODY_REQ has reached, and a NetworkIO pair nothing
\* went through: what the node specifications below leave untouched.
NoCustody ==
    [config |-> [max_retries |-> 0, backoff_base_sec |-> 0],
     active_records |-> EmptyMap, custody_records |-> EmptyMap, sent |-> {}]
NoTraffic == [acked |-> {}, message |-> None, data |-> None, received |-> None]

\* A thread that is in no handler, and a node all of whose threads are: the
\* event loop's thread (`tick`), NetworkIO's receive thread (`recv`) and a
\* thread of the application calling Node.send_file (`call`); `raised` is the
\* exception that ended the event loop's last pass, if one did; `base` and
\* `ops` are the node when the handlers now running began and what they are
\* (history).
Idle == [pc |-> "idle"]
NoThreads ==
    [tick |-> Idle, recv |-> Idle, call |-> Idle, raised |-> Quiet, base |-> None,
     ops |-> <<>>]

\* Two nodes freshly constructed over empty Stores, nothing in flight.
InitWith(configs, files) ==
    /\ cfg \in configs
    /\ file \in files
    /\ snd = EmptySender
    /\ rcv = EmptyReceiver
    /\ to_rcv = {}
    /\ to_snd = {}
    /\ used = {}
    /\ faults = 0
    /\ restarts = 0
    /\ emits = EmptyMap
    /\ writes = EmptyMap
    /\ last = Quiet
    /\ cust = NoCustody
    /\ net = NoTraffic
    /\ threads = NoThreads

\* emits after the DATA messages of `out` left the sending node.
Emitted(out) ==
    [b \in (DOMAIN emits) \cup {m.bundle_id : m \in {x \in out : x.msg_type = "DATA"}} |->
        LET old == IF b \in DOMAIN emits THEN emits[b] ELSE EmptyMap
            ids == {m.chunk_id :
                      m \in {x \in out : x.msg_type = "DATA" /\ x.bundle_id = b}}
        IN  [c \in (DOMAIN old) \cup ids |->
                Min(2, (IF c \in DOMAIN old THEN old[c] ELSE 0)
                       + (IF c \in ids THEN 1 ELSE 0))]]

\* writes after the rows of chunk ids `written` went to the receiver's Store.
RECURSIVE Written(_, _, _)
Written(w, b, written) ==
    IF written = <<>> THEN w
    ELSE LET old == IF b \in DOMAIN w THEN w[b] ELSE EmptyMap
             c == Head(written)
         IN  Written(save_bundle(w, b,
                        save_bundle(old, c, Min(2, (IF c \in DOMAIN old THEN old[c] ELSE 0) + 1))),
                     b, Tail(written))

Wire(out) == {_serialize_message(m) : m \in out}

\* The send outcome in which every sendto succeeds.
AllOk == ChunkIds

\* The number of chunks send_file makes of file f under configuration c with
\* the CLI's FEC flag.
TotalChunksOf(c, f, fec_enabled) ==
    Cardinality(DOMAIN _create_chunks(f, c, fec_enabled /\ c.fec.enabled))

\* ------------------------------------------------------------- actions
\* Node.send_file on the file, with the CLI's FEC flag.
NodeSendFile(b, fec_enabled, ok, wire) ==
    /\ b \notin used
    /\ \E res \in {send_file(snd, cfg, file, b, fec_enabled, ok)} :
           /\ snd' = res.snd
           /\ to_rcv' = IF wire THEN to_rcv \cup Wire(res.out) ELSE to_rcv
           /\ emits' = IF wire THEN emits ELSE Emitted(res.out)
           /\ last' = Quiet
    /\ used' = used \cup {b}
    /\ UNCHANGED <<threads, cust, net, cfg, file, rcv, to_snd, faults, restarts, writes>>

\* Node.send_file cut short: the process ends inside SendEngine.send_file
\* when `saved` chunk rows are in the Store, and a new process is started on
\* that Store.
NodeSendFileStopped(b, fec_enabled, saved) ==
    /\ b \notin used
    /\ restarts < MaxRestarts
    /\ saved \in 0..TotalChunksOf(cfg, file, fec_enabled)
    /\ snd' = StartedSender(send_file_stopped(snd, cfg, file, b, fec_enabled, saved), cfg)
    /\ cust' = StartedCustody(cust)
    /\ used' = used \cup {b}
    /\ restarts' = restarts + 1
    /\ emits' = EmptyMap
    /\ last' = Quiet
    /\ UNCHANGED <<threads, net, cfg, file, rcv, to_rcv, to_snd, faults, writes>>

\* Node._handle_message on the sending node for an arriving datagram.
SenderHandles(data, ok, wire) ==
    LET msg == _receive_loop(data)
        b == msg.bundle_id
        handled == CASE msg.msg_type = "SACK" -> handle_sack(snd, cfg, msg, ok)
                     [] msg.msg_type = "DELIVERED" ->
                            [snd |-> handle_delivered(snd, msg), out |-> {}]
                     [] msg.msg_type = "CUSTODY_ACK" ->
                            [snd |-> handle_custody_ack(snd, msg), out |-> {}]
                     [] msg.msg_type = "CUSTODY_REQ" ->
                            [snd |-> snd, out |-> handle_custody_req(cust, msg).out]
                     [] msg = None -> [snd |-> snd, out |-> {}]
        custody == CASE msg.msg_type = "CUSTODY_REQ" -> handle_custody_req(cust, msg).cust
                     [] msg.msg_type = "DELIVERED" -> custody_handle_delivered(cust, msg)
                     [] OTHER -> cust
        tag == IF msg.msg_type = "SACK" /\ b \in DOMAIN snd.active_sends
               THEN LET acked == snd.active_sends[b].acked_chunks
                    IN  IF ~(msg.acked_chunks \subseteq acked) THEN "sack_new"
                        ELSE IF msg.acked_chunks = acked THEN "sack_same"
                        ELSE "sack_fewer"
               ELSE Quiet
    IN  \E res \in {handled} :
        /\ snd' = res.snd
        /\ to_rcv' = IF wire THEN to_rcv \cup Wire(res.out) ELSE to_rcv
        /\ emits' = IF wire THEN emits ELSE Emitted(res.out)
        /\ last' = tag
        /\ cust' = custody
        /\ UNCHANGED <<threads, net, cfg, file, rcv, used, restarts, writes>>

\* The event loop's 50 ms pass: Node._check_timeouts.
Tick(ok, wire) ==
    /\ \E res \in {_check_timeouts(snd, cfg, ok)} :
           /\ snd' = res.snd
           /\ to_rcv' = IF wire THEN to_rcv \cup Wire(res.out) ELSE to_rcv
           /\ emits' = IF wire THEN emits ELSE Emitted(res.out)
           /\ last' = Quiet
    /\ cust' = check_retry_timers(cust)
    /\ UNCHANGED <<threads, net, cfg, file, rcv, to_snd, used, faults, restarts, writes>>

\* The event loop's 60 s pass: Node._periodic_cleanup on the sending node;
\* `expired` are the bundles whose TTL the Store finds expired.
PeriodicCleanup(expired) ==
    /\ expired \subseteq DOMAIN snd.bundles
    /\ snd' = _periodic_cleanup(snd, expired)
    /\ last' = Quiet
    /\ UNCHANGED <<threads, cust, net, cfg, file, rcv, to_rcv, to_snd, used, faults, restarts, emits, writes>>

\* `step` ms pass (only while some SendState or custody record measures time).
TimePasses(step) ==
    /\ \/ \E b \in DOMAIN snd.active_sends :
             LET ss == snd.active_sends[b]
             IN  Elapse(ss, step) # ss
       \/ ElapseCustody(cust, step) # cust
    /\ snd' = [snd EXCEPT !.active_sends = [b \in DOMAIN @ |-> Elapse(@[b], step)]]
    /\ cust' = ElapseCustody(cust, step)
    /\ last' = Quiet
    /\ UNCHANGED <<threads, net, cfg, file, rcv, to_rcv, to_snd, used, faults, restarts, emits, writes>>

\* The sending node's process ends and a new one is started on its Store.
RestartSender ==
    /\ restarts < MaxRestarts
    /\ DOMAIN snd.bundles # {} \/ DOMAIN cust.custody_records # {}
    /\ snd' = StartedSender(snd, cfg)
    /\ cust' = StartedCustody(cust)
    /\ emits' = EmptyMap
    /\ restarts' = restarts + 1
    /\ last' = Quiet
    /\ UNCHANGED <<threads, net, cfg, file, rcv, to_rcv, to_snd, used, faults, writes>>

\* The receiving node's process ends and a new one is started on its Store.
RestartReceiver ==
    /\ restarts < MaxRestarts
    /\ DOMAIN rcv.active_receives # {}
    /\ rcv' = StartedReceiver(rcv)
    /\ restarts' = restarts + 1
    /\ last' = Quiet
    /\ UNCHANGED <<threads, cust, net, cfg, file, snd, to_rcv, to_snd, used, faults, emits, writes>>

\* Node._handle_message on the receiving node for an arriving DATA datagram.
ReceiverHandles(data, wire, writable) ==
    LET msg == _deserialize_message(data)
        b == msg.bundle_id
    IN  \E res \in {handle_data(rcv, cfg.fec.enabled, msg, writable)} :
        /\ rcv' = res.rcv
        /\ to_snd' = IF wire THEN to_snd \cup Wire(res.out) ELSE to_snd
        /\ writes' = Written(writes, b, res.written)
        /\ last' = IF b \in DOMAIN rcv.active_receives
                      /\ IsDuplicate(rcv.active_receives[b], msg.chunk_id)
                   THEN "dup" ELSE Quiet
        /\ UNCHANGED <<threads, cust, net, cfg, file, snd, used, restarts, emits>>


\* The number of chunks send_file makes of file f under configuration c, FEC
\* asked for.
TotalChunks(c, f) == Cardinality(DOMAIN _create_chunks(f, c, TRUE))

\* --------------------------------------------------------- the channel
\* A datagram reaches the receiving node; `keep` leaves a copy in flight
\* (the channel duplicates it).
DeliverToReceiver(data, keep) ==
    /\ data \in to_rcv
    /\ ReceiverHandles(data, TRUE, TRUE)
    /\ to_rcv' = IF keep THEN to_rcv ELSE to_rcv \ {data}
    /\ faults' = IF keep THEN Min(faults + 1, MaxFaults) ELSE faults

\* A datagram reaches the receiving node, whose output file can be written
\* (`writable`) or cannot.
DeliverToReceiverDisk(data, writable) ==
    /\ data \in to_rcv
    /\ ReceiverHandles(data, TRUE, writable)
    /\ to_rcv' = to_rcv \ {data}
    /\ faults' = faults

\* A datagram reaches the sending node.
DeliverToSender(data, keep) ==
    /\ data \in to_snd
    /\ SenderHandles(data, AllOk, TRUE)
    /\ to_snd' = IF keep THEN to_snd ELSE to_snd \ {data}
    /\ faults' = IF keep THEN Min(faults + 1, MaxFaults) ELSE faults

\* The channel drops a datagram.
Lose(data) ==
    /\ \/ data \in to_rcv /\ to_rcv' = to_rcv \ {data} /\ to_snd' = to_snd
       \/ data \in to_snd /\ to_snd' = to_snd \ {data} /\ to_rcv' = to_rcv
    /\ faults' = Min(faults + 1, MaxFaults)
    /\ last' = Quiet
    /\ UNCHANGED <<threads, cust, net, cfg, file, snd, rcv, used, restarts, emits, writes>>

\* ------------------------------------------ the two nodes and the channel
\* Two nodes with one configuration file and a channel that reorders but
\* neither loses nor duplicates; every sendto succeeds; no TTL runs out.
ClosedConfigs ==
    {c \in Configs : c.base_rto_ms <= c.max_rto_ms /\ c.fec.r <= 1 /\ c.fec.k # 1}

\* One file of each length, its bytes going round ByteVals.
ClosedFiles ==
    {[i \in 1..n |-> CHOOSE v \in ByteVals :
                        Cardinality({w \in ByteVals : w < v}) = i % Cardinality(ByteVals)] :
        n \in 0..MaxFileLen}

MaxClosedChunks == 4

Init ==
    /\ InitWith(ClosedConfigs, ClosedFiles)
    /\ TotalChunks(cfg, file) <= MaxClosedChunks

Next ==
    \/ \E b \in BundleIds, fec_enabled \in BOOLEAN : NodeSendFile(b, fec_enabled, AllOk, TRUE)
    \/ \E data \in to_rcv : DeliverToReceiver(data, FALSE)
    \/ \E data \in to_snd : DeliverToSender(data, FALSE)
    \/ Tick(AllOk, TRUE)
    \/ TimePasses(LongStep)
    \/ PeriodicCleanup({})

Spec == Init /\ [][Next]_vars

\* ------------------------------------ the two nodes, faults and restarts
\* As above, on a channel that also loses and duplicates up to MaxFaults
\* datagrams, with up to MaxRestarts restarts of a node.
RestartConfigs ==
    {c \in ClosedConfigs : c.chunk_size = MaxChunkSize /\ c.window_size = MaxWindow}

\* Files of one chunk with FEC, of up to two chunks without.
InitRestart ==
    /\ InitWith(RestartConfigs, ClosedFiles)
    /\ cfg.fec.enabled => Len(file) <= MaxChunkSize

NextRestart ==
    \/ \E b \in BundleIds, fec_enabled \in BOOLEAN : NodeSendFile(b, fec_enabled, AllOk, TRUE)
    \/ \E data \in to_rcv, keep \in BOOLEAN :
          (keep => faults < MaxFaults) /\ DeliverToReceiver(data, keep)
    \/ \E data \in to_snd, keep \in BOOLEAN :
          (keep => faults < MaxFaults) /\ DeliverToSender(data, keep)
    \/ \E data \in to_rcv \cup to_snd : faults < MaxFaults /\ Lose(data)
    \/ Tick(AllOk, TRUE)
    \/ TimePasses(LongStep)
    \/ PeriodicCleanup({})
    \/ RestartSender
    \/ RestartReceiver

SpecRestart == InitRestart /\ [][NextRestart]_vars

\* ------------------------------------------- the two nodes, fair schedule
\* A channel that may lose any datagram, but delivers a datagram that is in
\* flight again and again; the event loop keeps ticking and time keeps
\* passing; every sendto succeeds.
LiveConfigs ==
    {c \in RestartConfigs : ~c.fec.enabled}
\* The empty file and a file of two chunks.
LiveFiles == {f \in ClosedFiles : Len(f) \in {0, MaxChunkSize + 1}}

LiveData ==
    UNION {Wire({make_data_msg(b, _create_chunks(f, c, TRUE)[i], TotalChunks(c, f)) :
                    i \in DOMAIN _create_chunks(f, c, TRUE)}) :
              <<b, c, f>> \in BundleIds \X LiveConfigs \X LiveFiles}
LiveReplies ==
    UNION {{_serialize_message(make_sack_msg(b, S)) : S \in (SUBSET (0..1)) \ {{}}}
           \cup {_serialize_message(make_delivered_msg(b)),
                 _serialize_message(make_custody_ack_msg(b, <<>>))} : b \in BundleIds}

InitLive == InitWith(LiveConfigs, LiveFiles)

NextLive ==
    \/ \E b \in BundleIds, fec_enabled \in BOOLEAN : NodeSendFile(b, fec_enabled, AllOk, TRUE)
    \/ \E data \in to_rcv, keep \in BOOLEAN : DeliverToReceiver(data, keep)
    \/ \E data \in to_snd, keep \in BOOLEAN : DeliverToSender(data, keep)
    \/ \E data \in to_rcv \cup to_snd : Lose(data)
    \/ Tick(AllOk, TRUE)
    \/ TimePasses(LongStep)

\* The event loop runs the tick for ever and time passes (weak fairness); a
\* datagram that is in flight again and again is eventually delivered (strong
\* fairness of each delivery, written out: a delivery is enabled exactly when
\* its datagram is in flight, and it always changes the channel).
Fairness ==
    /\ WF_vars(Tick(AllOk, TRUE))
    /\ WF_vars(TimePasses(LongStep))
    /\ \A data \in LiveData :
          []<>(data \in to_rcv) => []<><<DeliverToReceiver(data, FALSE)>>_vars
    /\ \A data \in LiveReplies :
          []<>(data \in to_snd) => []<><<DeliverToSender(data, FALSE)>>_vars

SpecLive == InitLive /\ [][NextLive]_vars /\ Fairness

\* ------------------------------------------ the two nodes, lossy channel
\* The two nodes on a channel that drops, reorders and duplicates datagrams
\* without limit; FEC on or off; no process is restarted.
InitLossy == InitRestart

NextLossy ==
    \/ \E b \in BundleIds, fec_enabled \in BOOLEAN : NodeSendFile(b, fec_enabled, AllOk, TRUE)
    \/ \E data \in to_rcv, keep \in BOOLEAN : DeliverToReceiver(data, keep)
    \/ \E data \in to_snd, keep \in BOOLEAN : DeliverToSender(data, keep)
    \/ \E data \in to_rcv \cup to_snd : Lose(data)
    \/ Tick(AllOk, TRUE)
    \/ TimePasses(LongStep)

SpecLossy == InitLossy /\ [][NextLossy]_vars

\* ------------------------------- the two nodes, fair schedule, a restart
\* As SpecLive for the file of two chunks, and the sending node's process may
\* end and be started again on its Store (up to MaxRestarts times).
ResumeFiles == {f \in LiveFiles : Len(f) > 0}

InitResume == InitWith(LiveConfigs, ResumeFiles)

NextResume ==
    \/ \E b \in BundleIds, fec_enabled \in BOOLEAN : NodeSendFile(b, fec_enabled, AllOk, TRUE)
    \/ \E data \in to_rcv, keep \in BOOLEAN : DeliverToReceiver(data, keep)
    \/ \E data \in to_snd, keep \in BOOLEAN : DeliverToSender(data, keep)
    \/ \E data \in to_rcv \cup to_snd : Lose(data)
    \/ Tick(AllOk, TRUE)
    \/ TimePasses(LongStep)
    \/ RestartSender

SpecResume == InitResume /\ [][NextResume]_vars /\ Fairness

\* ------------------------- the two nodes, the output file may not open
\* The two nodes on a channel that neither loses nor duplicates; writing the
\* receiver's output file succeeds at some arrivals and fails at others.
InitDisk == InitWith(RestartConfigs, ClosedFiles)

NextDisk ==
    \/ \E b \in BundleIds, fec_enabled \in BOOLEAN : NodeSendFile(b, fec_enabled, AllOk, TRUE)
    \/ \E data \in to_rcv, writable \in BOOLEAN : DeliverToReceiverDisk(data, writable)
    \/ \E data \in to_snd : DeliverToSender(data, FALSE)
    \/ Tick(AllOk, TRUE)
    \/ TimePasses(LongStep)

SpecDisk == InitDisk /\ [][NextDisk]_vars

\* ------------------------------------------------- the sending node alone
\* The sending node with an arbitrary peer: any SACK over the chunk ids
\* 0..MaxSendChunks (one id more than any bundle here has), DELIVERED and
\* CUSTODY_ACK arrive in any order and any number of times.
MaxSendChunks == 3
SendStep == 200

\* The content of a file does not reach the Send Engine's decisions: one file
\* of each length.
SendFiles == {[i \in 1..n |-> CHOOSE v \in ByteVals : TRUE] : n \in 0..MaxFileLen}

SackSets == SUBSET (0..MaxSendChunks)

PeerDatagrams ==
    UNION {{_serialize_message(make_sack_msg(b, S)) : S \in SackSets}
           \cup {_serialize_message(make_delivered_msg(b)),
                 _serialize_message(make_custody_ack_msg(b, <<>>))} : b \in BundleIds}

\* A datagram of the peer reaches the sending node.
Arrives(data, ok) ==
    /\ SenderHandles(data, ok, FALSE)
    /\ UNCHANGED <<to_snd, faults>>

SendConfigs ==
    {c \in Configs : c.chunk_size = 1 /\ c.fec.k <= 1 /\ c.base_rto_ms <= c.max_rto_ms}

InitSend ==
    /\ InitWith(SendConfigs, SendFiles)
    /\ TotalChunks(cfg, file) <= MaxSendChunks

NextSend ==
    \/ \E b \in BundleIds, fec_enabled \in BOOLEAN : NodeSendFile(b, fec_enabled, AllOk, FALSE)
    \/ \E data \in PeerDatagrams : Arrives(data, AllOk)
    \/ Tick(AllOk, FALSE)
    \/ TimePasses(SendStep)
    \/ \E expired \in SUBSET DOMAIN snd.bundles : PeriodicCleanup(expired)
    \/ RestartSender

SpecSend == InitSend /\ [][NextSend]_vars

\* --------------------------- the sending node, send_file may be cut short
\* The sending node with an arbitrary peer (as SpecSend below, without TTL
\* cleanup); its process may end at any point of send_file's writes to the
\* Store and be started again.
InitStopped ==
    /\ InitWith(SendConfigs, SendFiles)
    /\ TotalChunks(cfg, file) <= MaxSendChunks

NextStopped ==
    \/ \E b \in BundleIds, fec_enabled \in BOOLEAN : NodeSendFile(b, fec_enabled, AllOk, FALSE)
    \/ \E b \in BundleIds, fec_enabled \in BOOLEAN, saved \in 0..MaxSendChunks :
          NodeSendFileStopped(b, fec_enabled, saved)
    \/ \E data \in PeerDatagrams : Arrives(data, AllOk)
    \/ Tick(AllOk, FALSE)
    \/ TimePasses(SendStep)

SpecStopped == InitStopped /\ [][NextStopped]_vars

\* ------------------------------------ the sending node, sendto may fail
\* The sending node with an arbitrary peer; in every pass that emits DATA the
\* socket's sendto succeeds for some chunk ids and fails for the others.
MaxFailChunks == 2

\* The sets of chunk ids for which sendto succeeds in one pass.
SendOutcomes == SUBSET (0 .. (MaxFailChunks - 1))

FailDatagrams ==
    UNION {{_serialize_message(make_sack_msg(b, S)) : S \in SUBSET (0 .. (MaxFailChunks - 1))}
           \cup {_serialize_message(make_delivered_msg(b))} : b \in BundleIds}

InitFail ==
    /\ InitWith(SendConfigs, SendFiles)
    /\ TotalChunks(cfg, file) <= MaxFailChunks

NextFail ==
    \/ \E b \in BundleIds, fec_enabled \in BOOLEAN, ok \in SendOutcomes :
          NodeSendFile(b, fec_enabled, ok, FALSE)
    \/ \E data \in FailDatagrams, ok \in SendOutcomes : Arrives(data, ok)
    \/ \E ok \in SendOutcomes : Tick(ok, FALSE)
    \/ TimePasses(SendStep)

SpecFail == InitFail /\ [][NextFail]_vars

\* ----------------------------------------------- the receiving node alone
\* The receiving node fed the DATA of a bundle the sending side has chunked,
\* each message any number of times, in any order.
MaxRecvChunks == 5

\* The DATA messages of bundle b, made from the rows of the sender's Store.
BundleMessages(b) ==
    {make_data_msg(b, snd.chunks[b][c], snd.bundles[b].total_chunks) :
        c \in DOMAIN snd.chunks[b]}

FeedData(data) ==
    /\ ReceiverHandles(data, FALSE, TRUE)
    /\ UNCHANGED <<to_rcv, faults>>

RecvConfigs ==
    {c \in Configs : c.window_size = MaxWindow /\ c.base_rto_ms <= c.max_rto_ms}

InitRecv ==
    /\ InitWith(RecvConfigs, Files)
    /\ TotalChunks(cfg, file) <= MaxRecvChunks

NextRecv ==
    \/ \E b \in BundleIds, fec_enabled \in BOOLEAN : NodeSendFile(b, fec_enabled, AllOk, FALSE)
    \/ \E b \in DOMAIN snd.chunks : \E data \in Wire(BundleMessages(b)) : FeedData(data)

SpecRecv == InitRecv /\ [][NextRecv]_vars

\* ------------------------------- the receiving node, its own FEC turned off
\* As SpecRecv, with a receiving node whose configuration has fec.enabled
\* false, whatever the sending node's configuration is.
FeedDataPlain(data) ==
    LET msg == _deserialize_message(data)
        b == msg.bundle_id
    IN  \E res \in {handle_data(rcv, FALSE, msg, TRUE)} :
        /\ rcv' = res.rcv
        /\ writes' = Written(writes, b, res.written)
        /\ last' = IF b \in DOMAIN rcv.active_receives
                      /\ IsDuplicate(rcv.active_receives[b], msg.chunk_id)
                   THEN "dup" ELSE Quiet
        /\ UNCHANGED <<threads, cust, net, cfg, file, snd, used, restarts, emits, to_rcv, to_snd,
                       faults>>

InitPlain ==
    /\ InitWith(RecvConfigs, Files)
    /\ TotalChunks(cfg, file) <= MaxRecvChunks

NextPlain ==
    \/ \E b \in BundleIds, fec_enabled \in BOOLEAN : NodeSendFile(b, fec_enabled, AllOk, FALSE)
    \/ \E b \in DOMAIN snd.chunks : \E data \in Wire(BundleMessages(b)) : FeedDataPlain(data)

SpecPlain == InitPlain /\ [][NextPlain]_vars

\* --------------------------------------------- a node that is asked custody
\* A node that sends nothing itself, with a peer that asks it custody of a
\* bundle with range lists of several lengths, and sends it DELIVERED and
\* CUSTODY_ACK, in any order and any number of times.
MaxRetries == 2
MaxRanges == 147
CustodyConfigs ==
    {[max_retries |-> m, backoff_base_sec |-> s] : m \in 0..MaxRetries, s \in {1, 2}}

\* No ranges, the ranges of the test suite, and the two longest lists of
\* one-digit ranges considered.
RangeLists ==
    {<<>>, << <<0, 10>> >>}
    \cup {[i \in 1..n |-> <<0, 1>>] : n \in {MaxRanges - 1, MaxRanges}}

\* The CUSTODY_REQ datagrams of the peer: those a UDP datagram of at most
\* MaxDatagram bytes holds.
CustodyReqs ==
    {data \in {_serialize_message(make_custody_req_msg(b, ranges, 60 * TtlUnit)) :
                  <<b, ranges>> \in BundleIds \X RangeLists} :
        data.len <= MaxDatagram}

CustodyDatagrams ==
    CustodyReqs
    \cup UNION {{_serialize_message(make_delivered_msg(b)),
                 _serialize_message(make_custody_ack_msg(b, <<>>))} : b \in BundleIds}

InitCustody ==
    /\ cfg \in {c \in Configs : c.chunk_size = 1 /\ c.window_size = 1 /\ ~c.fec.enabled
                                /\ c.base_rto_ms <= c.max_rto_ms}
    /\ file = <<>>
    /\ snd = EmptySender
    /\ rcv = EmptyReceiver
    /\ to_rcv = {}
    /\ to_snd = {}
    /\ used = {}
    /\ faults = 0
    /\ restarts = 0
    /\ emits = EmptyMap
    /\ writes = EmptyMap
    /\ last = Quiet
    /\ cust \in {[NoCustody EXCEPT !.config = c] : c \in CustodyConfigs}
    /\ net = NoTraffic
    /\ threads = NoThreads

NextCustody ==
    \/ \E data \in CustodyDatagrams : Arrives(data, AllOk)
    \/ Tick(AllOk, FALSE)
    \/ TimePasses(LongStep)
    \/ RestartSender

SpecCustody == InitCustody /\ [][NextCustody]_vars

\* ----------------------- a node that is asked custody, its threads stepping
\* The node of SpecCustody with its two threads taking their handlers one
\* statement at a time: the event loop's thread in check_retry_timers and
\* the receive thread in handle_delivered. No lock is taken by either; each
\* write to the Store is one transaction (the Store's own lock). A
\* CUSTODY_REQ arrives and time passes while both threads are idle.
MaxOverlap == 2

BothIdle == threads.tick = Idle /\ threads.recv = Idle

\* The history kept when a handler begins: the node as it was when the
\* handlers that overlap began, and the handlers begun since.
Begun(op) ==
    IF BothIdle THEN [threads EXCEPT !.base = cust, !.ops = <<op>>]
    ELSE [threads EXCEPT !.ops = Append(@, op)]

TickOp == [op |-> "tick", bundle_id |-> <<>>]
DeliveredOp(b) == [op |-> "delivered", bundle_id |-> b]

NodeFrame ==
    <<cfg, file, snd, rcv, to_rcv, to_snd, used, faults, restarts, emits, writes, last, net>>

\* check_retry_timers: `now` is read and the records are listed.
TickBegins ==
    /\ threads.tick = Idle
    /\ Len(threads.ops) < MaxOverlap \/ BothIdle
    /\ threads' = [Begun(TickOp) EXCEPT
                     !.tick = [pc |-> "next", todo |-> DOMAIN cust.active_records]]
    /\ UNCHANGED <<cust, NodeFrame>>

\* The for statement: the next record of the list, or the end of the pass.
TickNext ==
    /\ threads.tick.pc = "next"
    /\ \/ /\ threads.tick.todo = {}
          /\ threads' = [threads EXCEPT !.tick = Idle]
       \/ \E b \in threads.tick.todo :
             threads' = [threads EXCEPT
                           !.tick = [pc |-> "test", todo |-> threads.tick.todo \ {b},
                                     bundle_id |-> b]]
    /\ UNCHANGED <<cust, NodeFrame>>

\* The tests of the record's state, retry_timer and retry_count.
TickTests ==
    /\ threads.tick.pc = "test"
    /\ LET record == cust.active_records[threads.tick.bundle_id]
           pc == IF record.state \in {"complete", "failed"} THEN "next"
                 ELSE IF record.retry_timer > 0 THEN "next"
                 ELSE IF record.retry_count >= record.max_retries THEN "fail"
                 ELSE "count"
       IN  threads' = [threads EXCEPT !.tick.pc = pc]
    /\ UNCHANGED <<cust, NodeFrame>>

\* record.state = "failed"
TickFails ==
    /\ threads.tick.pc = "fail"
    /\ cust' = [cust EXCEPT !.active_records[threads.tick.bundle_id].state = "failed"]
    /\ threads' = [threads EXCEPT !.tick.pc = "save"]
    /\ UNCHANGED NodeFrame

\* record.retry_count += 1
TickCounts ==
    /\ threads.tick.pc = "count"
    /\ cust' = [cust EXCEPT !.active_records[threads.tick.bundle_id].retry_count = @ + 1]
    /\ threads' = [threads EXCEPT !.tick.pc = "arm"]
    /\ UNCHANGED NodeFrame

\* record.retry_timer = now + backoff
TickArms ==
    /\ threads.tick.pc = "arm"
    /\ cust' = [cust EXCEPT
                  !.active_records[threads.tick.bundle_id].retry_timer =
                      2^(cust.active_records[threads.tick.bundle_id].retry_count)
                      * cust.config.backoff_base_sec * 1000]
    /\ threads' = [threads EXCEPT !.tick.pc = "save"]
    /\ UNCHANGED NodeFrame

\* _save_record on thread t: the dict is made of the record's fields.
SaveBuilds(t) ==
    /\ threads[t].pc = "save"
    /\ threads' = [threads EXCEPT
                     ![t] = [@ EXCEPT !.pc = "store"] @@
                            [data |-> cust.active_records[threads[t].bundle_id]]]
    /\ UNCHANGED <<cust, NodeFrame>>

\* _save_record on thread t: storage.save_custody_record(data), then the
\* record is put back into active_records (where it is already).
SaveStores(t) ==
    /\ threads[t].pc = "store"
    /\ cust' = [cust EXCEPT
                  !.custody_records = save_bundle(@, threads[t].bundle_id, threads[t].data)]
    /\ threads' = [threads EXCEPT
                     ![t] = IF t = "tick"
                            THEN [pc |-> "next", todo |-> threads.tick.todo]
                            ELSE Idle]
    /\ UNCHANGED NodeFrame

\* handle_delivered: a DELIVERED for bundle b reaches the receive thread; the
\* record is looked up and its state tested.
RecvDelivered(b) ==
    /\ threads.recv = Idle
    /\ Len(threads.ops) < MaxOverlap \/ BothIdle
    /\ threads' = [Begun(DeliveredOp(b)) EXCEPT
                     !.recv = IF b \in DOMAIN cust.active_records
                                 /\ cust.active_records[b].state
                                        \notin {"complete", "failed"}
                              THEN [pc |-> "complete", bundle_id |-> b]
                              ELSE Idle]
    /\ UNCHANGED <<cust, NodeFrame>>

\* record.state = "complete"
RecvCompletes ==
    /\ threads.recv.pc = "complete"
    /\ cust' = [cust EXCEPT !.active_records[threads.recv.bundle_id].state = "complete"]
    /\ threads' = [threads EXCEPT !.recv.pc = "save"]
    /\ UNCHANGED NodeFrame

\* A CUSTODY_REQ reaches the receive thread while the event loop's thread is
\* idle: handle_custody_req as a whole.
CustodyReqArrives(data) ==
    /\ BothIdle
    /\ cust' = handle_custody_req(cust, _receive_loop(data)).cust
    /\ threads' = NoThreads
    /\ UNCHANGED NodeFrame

\* `step` ms pass while both threads are idle.
CustodyTimePasses(step) ==
    /\ BothIdle
    /\ cust' = ElapseCustody(cust, step)
    /\ threads' = NoThreads
    /\ UNCHANGED NodeFrame

InitCustodyThreads == InitCustody

\* The peer's CUSTODY_REQ datagrams with an empty range list.
PlainCustodyReqs ==
    {_serialize_message(make_custody_req_msg(b, <<>>, 60 * TtlUnit)) : b \in BundleIds}

NextCustodyThreads ==
    \/ \E data \in PlainCustodyReqs : CustodyReqArrives(data)
    \/ CustodyTimePasses(LongStep)
    \/ TickBegins
    \/ TickNext
    \/ TickTests
    \/ TickFails
    \/ TickCounts
    \/ TickArms
    \/ \E t \in {"tick", "recv"} : SaveBuilds(t)
    \/ \E t \in {"tick", "recv"} : SaveStores(t)
    \/ \E b \in BundleIds : RecvDelivered(b)
    \/ RecvCompletes

SpecCustodyThreads == InitCustodyThreads /\ [][NextCustodyThreads]_vars

\* ------------------------------- the sending node, its threads stepping
\* The sending node of SpecSend with its three threads taking their handlers
\* in steps: the event loop's thread in Node._check_timeouts, the receive
\* thread in handle_sack, and a thread of the application in Node.send_file.
\* No lock is taken by any of them. Time passes while every thread is idle.
MaxCalls == 1
MaxThreadChunks == 2

AllIdle == threads.tick = Idle /\ threads.recv = Idle /\ threads.call = Idle

SendFrame == <<cfg, file, rcv, to_rcv, to_snd, faults, restarts, writes, last, net, cust>>

\* check_timeouts: `current_time` is read and the SendStates are listed.
PassBegins ==
    /\ threads.tick = Idle
    /\ threads' = [threads EXCEPT
                     !.tick = [pc |-> "timers", todo |-> DOMAIN snd.active_sends],
                     !.raised = Quiet]
    /\ UNCHANGED <<snd, used, emits, SendFrame>>

\* check_timeouts: the next SendState of the list, its chunk_timers listed;
\* after the last one, Node._check_timeouts starts to iterate over
\* send_destinations.
TimersListed ==
    /\ threads.tick.pc = "timers"
    /\ \/ /\ threads.tick.todo = {}
          /\ threads' = [threads EXCEPT
                           !.tick = [pc |-> "dests",
                                     size |-> Cardinality(snd.send_destinations),
                                     todo |-> snd.send_destinations]]
       \/ \E b \in threads.tick.todo :
             threads' = [threads EXCEPT
                           !.tick = IF snd.active_sends[b].completed
                                    THEN [pc |-> "timers", todo |-> threads.tick.todo \ {b}]
                                    ELSE [pc |-> "check", todo |-> threads.tick.todo \ {b},
                                          bundle_id |-> b,
                                          listed |-> snd.active_sends[b].chunk_timers]]
    /\ UNCHANGED <<snd, used, emits, SendFrame>>

\* check_timeouts: the loop over the listed timers and what follows it for
\* the SendState. `del send_state.chunk_timers[chunk_id]` raises KeyError
\* for a listed timer of an acknowledged chunk that is no longer there.
TimersChecked ==
    /\ threads.tick.pc = "check"
    /\ LET b == threads.tick.bundle_id
           ss == snd.active_sends[b]
           listed == threads.tick.listed
           gone == {c \in DOMAIN listed :
                       c \in ss.acked_chunks /\ c \notin DOMAIN ss.chunk_timers}
           after == CheckTimeoutsOne([ss EXCEPT !.chunk_timers = listed], cfg)
           kept == ((DOMAIN after.chunk_timers) \cap (DOMAIN ss.chunk_timers))
                   \cup ((DOMAIN ss.chunk_timers) \ (DOMAIN listed))
       IN  IF gone # {}
           THEN /\ threads' = [threads EXCEPT !.tick = Idle, !.raised = "KeyError"]
                /\ snd' = snd
           ELSE /\ threads' = [threads EXCEPT
                                 !.tick = [pc |-> "timers", todo |-> threads.tick.todo]]
                /\ snd' = [snd EXCEPT
                             !.active_sends[b] =
                                 [after EXCEPT
                                    !.chunk_timers = [c \in kept |-> ss.chunk_timers[c]]]]
    /\ UNCHANGED <<used, emits, SendFrame>>

\* Node._check_timeouts: the next item of send_destinations.items(), which
\* raises RuntimeError when the dict has changed size since the loop began;
\* retransmit_chunks begins for the bundle; after the last item the pass ends.
DestNext ==
    /\ threads.tick.pc = "dests"
    /\ IF Cardinality(snd.send_destinations) # threads.tick.size
       THEN threads' = [threads EXCEPT !.tick = Idle, !.raised = "RuntimeError"]
       ELSE \/ /\ threads.tick.todo = {}
               /\ threads' = [threads EXCEPT !.tick = Idle]
            \/ \E b \in threads.tick.todo :
                  threads' = [threads EXCEPT
                                !.tick = [pc |-> IF b \in DOMAIN snd.active_sends
                                                    /\ ~snd.active_sends[b].completed
                                                 THEN "queue" ELSE "dests",
                                          size |-> threads.tick.size,
                                          todo |-> threads.tick.todo \ {b},
                                          bundle_id |-> b]]
    /\ UNCHANGED <<snd, used, emits, SendFrame>>

\* retransmit_chunks: the head of the retransmit queue is taken and tested.
QueuePopped ==
    /\ threads.tick.pc = "queue"
    /\ LET b == threads.tick.bundle_id
           ss == snd.active_sends[b]
           chunk_dict == load_chunks_for_bundle(snd.chunks, b)
       IN  IF ss.retransmit_queue = <<>>
           THEN /\ threads' = [threads EXCEPT !.tick.pc = "dests"]
                /\ snd' = snd
           ELSE LET chunk_id == Head(ss.retransmit_queue)
                IN  /\ snd' = [snd EXCEPT !.active_sends[b].retransmit_queue = Tail(@)]
                    /\ threads' =
                         IF chunk_id \in ss.acked_chunks \/ chunk_id \notin DOMAIN chunk_dict
                         THEN threads
                         ELSE [threads EXCEPT
                                 !.tick = [@ EXCEPT !.pc = "resend"] @@
                                          [chunk_id |-> chunk_id]]
    /\ UNCHANGED <<used, emits, SendFrame>>

\* retransmit_chunks: the chunk is sent, its timer armed and the chunk marked.
ChunkResent ==
    /\ threads.tick.pc = "resend"
    /\ LET b == threads.tick.bundle_id
           chunk_id == threads.tick.chunk_id
           ss == snd.active_sends[b]
           msg == make_data_msg(b, load_chunks_for_bundle(snd.chunks, b)[chunk_id],
                                ss.total_chunks)
       IN  IF Fits(msg)
           THEN /\ snd' = [snd EXCEPT
                             !.active_sends[b] =
                                 [ss EXCEPT
                                    !.chunk_timers = Put(@, {chunk_id}, ss.timeout_interval),
                                    !.retransmitted_chunks = @ \cup {chunk_id}]]
                /\ emits' = Emitted({msg})
           ELSE UNCHANGED <<snd, emits>>
    /\ threads' = [threads EXCEPT
                     !.tick = [pc |-> "queue", size |-> threads.tick.size,
                               todo |-> threads.tick.todo,
                               bundle_id |-> threads.tick.bundle_id]]
    /\ UNCHANGED <<used, SendFrame>>

\* handle_sack as far as send_state.acked_chunks.update(acked_chunks).
SackMerged(data) ==
    /\ threads.recv = Idle
    /\ LET msg == _receive_loop(data)
           b == msg.bundle_id
       IN  IF b \notin DOMAIN snd.active_sends THEN UNCHANGED <<snd, threads>>
           ELSE /\ snd' = [snd EXCEPT !.active_sends[b].acked_chunks = @ \cup msg.acked_chunks]
                /\ threads' =
                     [threads EXCEPT
                        !.recv = [pc |-> "finish", msg |-> msg,
                                  newly_acked |->
                                      msg.acked_chunks \ snd.active_sends[b].acked_chunks]]
    /\ UNCHANGED <<used, emits, SendFrame>>

\* handle_sack from there on: the newly acknowledged chunks' timers dropped,
\* the RTT estimate, the window moved, the transfer completed or the window sent.
SackFinished ==
    /\ threads.recv.pc = "finish"
    /\ LET msg == threads.recv.msg
           b == msg.bundle_id
           before == [snd EXCEPT !.active_sends[b].acked_chunks =
                                     @ \ threads.recv.newly_acked]
       IN  \E res \in {handle_sack(before, cfg, msg, AllOk)} :
              /\ snd' = res.snd
              /\ emits' = Emitted(res.out)
    /\ threads' = [threads EXCEPT !.recv = Idle]
    /\ UNCHANGED <<used, SendFrame>>

\* Node.send_file as far as SendEngine.send_file's return.
CallerSends(b, fec_enabled) ==
    /\ threads.call = Idle
    /\ b \notin used
    /\ Cardinality(used) < MaxCalls
    /\ \E res \in {send_file(snd, cfg, file, b, fec_enabled, AllOk)} :
          /\ snd' = [res.snd EXCEPT !.send_destinations = snd.send_destinations]
          /\ emits' = Emitted(res.out)
    /\ used' = used \cup {b}
    /\ threads' = [threads EXCEPT !.call = [pc |-> "register", bundle_id |-> b]]
    /\ UNCHANGED SendFrame

\* Node.send_file: self.send_destinations[bundle_id] = dest_addr
CallerRegisters ==
    /\ threads.call.pc = "register"
    /\ snd' = [snd EXCEPT !.send_destinations = @ \cup {threads.call.bundle_id}]
    /\ threads' = [threads EXCEPT !.call = Idle]
    /\ UNCHANGED <<used, emits, SendFrame>>

ThreadSacks ==
    {_serialize_message(make_sack_msg(b, S)) :
        <<b, S>> \in BundleIds \X SUBSET (0..(MaxThreadChunks - 1))}

InitSendThreads ==
    /\ InitWith(SendConfigs, SendFiles)
    /\ TotalChunks(cfg, file) <= MaxThreadChunks

NextSendThreads ==
    \/ PassBegins
    \/ TimersListed
    \/ TimersChecked
    \/ DestNext
    \/ QueuePopped
    \/ ChunkResent
    \/ \E data \in ThreadSacks : SackMerged(data)
    \/ SackFinished
    \/ \E b \in BundleIds, fec_enabled \in BOOLEAN : CallerSends(b, fec_enabled)
    \/ CallerRegisters
    \/ AllIdle /\ TimePasses(SendStep)

SpecSendThreads == InitSendThreads /\ [][NextSendThreads]_vars

\* ------------------------------------------------------ a NetworkIO pair
\* One NetworkIO sends a message made by protocol.make_*_msg, the other
\* receives the datagram.
MaxSackLow == 3
MaxPayload == 1161

\* A short bundle id ("b1") and one of 16 bytes.
CodecIds == BundleIds \cup {[i \in 1..16 |-> 97]}

\* Chunk ids next to the watermark and around the end of the SACK window.
SackIds ==
    (0..MaxSackLow)
    \cup {MAX_SACK_WINDOW_BITS - 1, MAX_SACK_WINDOW_BITS, MAX_SACK_WINDOW_BITS + 1}

\* DATA of the chunks of small files, and DATA with large field values and
\* payloads around the largest that fits a datagram.
CodecData ==
    UNION {{make_data_msg(b, _create_chunks(f, c, fec_enabled)[i],
                          Cardinality(DOMAIN _create_chunks(f, c, fec_enabled))) :
               i \in DOMAIN _create_chunks(f, c, fec_enabled)} :
             <<b, f, c, fec_enabled>> \in
                 CodecIds \X Files
                 \X {c \in Configs : c.window_size = 1 /\ c.base_rto_ms <= c.max_rto_ms}
                 \X BOOLEAN}
    \cup {[msg_type |-> "DATA", bundle_id |-> b, chunk_id |-> 70000,
           total_chunks |-> 70001, block_id |-> 300, k |-> kr, r |-> kr,
           checksum |-> crc32(<<0, 255>>), payload |-> [i \in 1..n |-> 255]] :
             <<b, kr, n>> \in CodecIds \X {65535, 65536}
                              \X {0, MaxPayload - 2, MaxPayload - 1, MaxPayload}}

CodecTtls == {-TtlUnit, 0, 5, 60 * TtlUnit, 60 * TtlUnit + 5}

CodecMessages ==
    CodecData
    \cup {make_custody_req_msg(b, ranges, ttl) :
             <<b, ranges, ttl>> \in CodecIds \X RangeLists \X CodecTtls}
    \cup {make_custody_ack_msg(b, ranges) : <<b, ranges>> \in CodecIds \X RangeLists}
    \cup {make_delivered_msg(b) : b \in CodecIds}

NetSend(message) ==
    /\ net = NoTraffic
    /\ net' = [net EXCEPT !.message = message, !.data = send_message(message)]
    /\ UNCHANGED <<cfg, file, snd, rcv, to_rcv, to_snd, used, faults, restarts, emits,
                   writes, last, cust, threads>>

NetSendSack(b, acked_chunks_list) ==
    /\ net = NoTraffic
    /\ net' = [net EXCEPT !.acked = acked_chunks_list,
                          !.message = make_sack_msg(b, acked_chunks_list),
                          !.data = send_message(make_sack_msg(b, acked_chunks_list))]
    /\ UNCHANGED <<cfg, file, snd, rcv, to_rcv, to_snd, used, faults, restarts, emits,
                   writes, last, cust, threads>>

NetReceive ==
    /\ net.data # None
    /\ net.received = None
    /\ net' = [net EXCEPT !.received = _receive_loop(net.data)]
    /\ UNCHANGED <<cfg, file, snd, rcv, to_rcv, to_snd, used, faults, restarts, emits,
                   writes, last, cust, threads>>

InitCodec ==
    /\ cfg \in {c \in Configs : c.chunk_size = 1 /\ c.window_size = 1 /\ ~c.fec.enabled
                                /\ c.base_rto_ms <= c.max_rto_ms}
    /\ file = <<>>
    /\ snd = EmptySender
    /\ rcv = EmptyReceiver
    /\ to_rcv = {}
    /\ to_snd = {}
    /\ used = {}
    /\ faults = 0
    /\ restarts = 0
    /\ emits = EmptyMap
    /\ writes = EmptyMap
    /\ last = Quiet
    /\ cust = NoCustody
    /\ net = NoTraffic
    /\ threads = NoThreads

NextCodec ==
    \/ \E message \in CodecMessages : NetSend(message)
    \/ \E b \in CodecIds, S \in SUBSET SackIds : NetSendSack(b, S)
    \/ NetReceive

SpecCodec == InitCodec /\ [][NextCodec]_vars

\* ------------------------------------- the receiving node on a noisy link
\* The receiving node fed the DATA of a bundle as above, and also DATA that
\* was damaged on the way: the first payload byte changed, or the checksum
\* field changed.
MaxNoisyChunks == 3

Damaged(m) ==
    {[m EXCEPT !.checksum = << @[1], BitXor(@[2], 1) >>]}
    \cup (IF m.payload = <<>> THEN {}
          ELSE {[m EXCEPT !.payload = [@ EXCEPT ![1] = BitXor(@, 3)]]})

DamagedMessages(b) == UNION {Damaged(m) : m \in BundleMessages(b)}

InitNoisy ==
    /\ InitWith(RecvConfigs, Files)
    /\ TotalChunks(cfg, file) <= MaxNoisyChunks

NextNoisy ==
    \/ \E b \in BundleIds, fec_enabled \in BOOLEAN : NodeSendFile(b, fec_enabled, AllOk, FALSE)
    \/ \E b \in DOMAIN snd.chunks : \E data \in Wire(BundleMessages(b)) : FeedData(data)
    \/ \E b \in DOMAIN snd.chunks : \E data \in Wire(DamagedMessages(b)) : FeedData(data)

SpecNoisy == InitNoisy /\ [][NextNoisy]_vars

\* ------------------------------------ the sending node and stray datagrams
\* The sending node with a peer as above whose datagrams may also be cut
\* short, or be of no known type: bytes that are no JSON text, or the JSON
\* text of a message.
MaxInboundChunks == 2

\* The first n bytes of a datagram.
Truncate(data, n) == [data EXCEPT !.len = n]

\* Datagrams cut one byte short of their header, and the empty datagram.
ShortDatagrams ==
    {Truncate(data, HeaderLen(data.type) - 1) :
        data \in PeerDatagrams \cup CustodyReqs}
    \cup {[type |-> 0, len |-> 0, json |-> NotJson]}

\* Datagrams whose first octet is none of 1..5: 0, 6, and "{" (123) opening
\* the JSON text of a message.
UnknownTypeDatagrams ==
    {[type |-> t, len |-> 20, json |-> NotJson] : t \in {0, 6}}
    \cup {[type |-> 123, len |-> 60, json |-> message] :
             message \in UNION {{make_delivered_msg(b),
                                 [msg_type |-> "SACK", bundle_id |-> b,
                                  acked_chunks |-> {0}]} : b \in BundleIds}}

MalformedDatagrams == ShortDatagrams \cup UnknownTypeDatagrams

InitInbound ==
    /\ InitWith(SendConfigs, SendFiles)
    /\ TotalChunks(cfg, file) <= MaxInboundChunks

NextInbound ==
    \/ \E b \in BundleIds, fec_enabled \in BOOLEAN : NodeSendFile(b, fec_enabled, AllOk, FALSE)
    \/ \E data \in PeerDatagrams : Arrives(data, AllOk)
    \/ \E data \in MalformedDatagrams : Arrives(data, AllOk)
    \/ Tick(AllOk, FALSE)
    \/ TimePasses(SendStep)

SpecInbound == InitInbound /\ [][NextInbound]_vars

\* ================================================================ claims
\* C1 (round trip).  On a channel that loses, duplicates and corrupts
\* nothing, with no restart, whenever the receiver has written the output
\* file of a bundle, that file is byte for byte the file given to send_file.
C1_RoundTrip ==
    \A b \in DOMAIN rcv.files : rcv.files[b] = file

\* C2 (liveness under loss).  On a channel that may drop and reorder but
\* delivers what is sent again and again, with the tick running and every
\* sendto succeeding, every bundle started by Node.send_file eventually has a
\* completed SendState and is eventually delivered by the receiver.
C2_Liveness ==
    \A b \in BundleIds :
        (b \in used) ~> (/\ b \in DOMAIN snd.active_sends
                         /\ snd.active_sends[b].completed
                         /\ b \in DOMAIN rcv.files)

\* Records of chunk c waiting in the write buffer, rows of chunk c written to
\* the Store so far, and payloads held in memory.
BufferCount(state, c) ==
    Cardinality({i \in DOMAIN state.write_buffer : state.write_buffer[i].chunk_id = c})
WrittenCount(b, c) ==
    IF b \in DOMAIN writes /\ c \in DOMAIN writes[b] THEN writes[b][c] ELSE 0
PayloadCount(state) ==
    Cardinality(DOMAIN state.data_chunks)
    + SumLen([i \in 1..Cardinality(DOMAIN state.parity_chunks) |->
                 state.parity_chunks[Sorted(DOMAIN state.parity_chunks)[i]]])

\* C3 (duplicate immunity). However DATA messages of a bundle are fed to
\* handle_data, repeated or not and in any order, every chunk id in
\* received_chunks has exactly one record (waiting in the write buffer or
\* written to the Store, never two), there is one payload in memory per
\* received chunk, and a DATA message whose chunk id is already in
\* received_chunks changes nothing in the receiving node (ReceiveState, Store
\* rows, output file) and writes no row, so what follows, the file included,
\* is what it would be without the repetition.
C3_DuplicateImmunity ==
    \A b \in DOMAIN rcv.active_receives :
        LET state == rcv.active_receives[b]
        IN  /\ \A c \in state.received_chunks :
                  BufferCount(state, c) + WrittenCount(b, c) = 1
            /\ PayloadCount(state) = Cardinality(state.received_chunks)
            /\ b \in DOMAIN snd.chunks =>
                  \A m \in BundleMessages(b) :
                      m.chunk_id \in state.received_chunks =>
                          LET res == handle_data(rcv, cfg.fec.enabled, m, TRUE)
                          IN  res.rcv = rcv /\ res.written = <<>>

\* A repeated DATA message has just been handled while the transfer was still
\* going on, with chunks waiting in the write buffer.
C3_Witness ==
    /\ last = "dup"
    /\ \E b \in DOMAIN rcv.active_receives :
          /\ rcv.active_receives[b].write_buffer # <<>>
          /\ ~rcv.active_receives[b].delivered

\* The data chunk ids of FEC block block_id, as _try_fec_reconstruct takes them.
BlockIds(state, block_id) ==
    (block_id * state.k) .. (Min(block_id * state.k + state.k, state.num_data_chunks) - 1)

\* C4 (FEC single loss). With FEC on, once a parity chunk of a block has
\* arrived and the receiver holds a payload for every data chunk of the block
\* (received, or reconstructed for the one that did not arrive), each of these
\* payloads is byte-equal to the chunk the sender made (same length, same
\* CRC-32), and a file the receiver has written equals the original.
C4_FecSingleLoss ==
    \A b \in DOMAIN rcv.active_receives :
        LET state == rcv.active_receives[b]
        IN  (state.fec_enabled /\ b \in DOMAIN snd.chunks) =>
              /\ \A block_id \in DOMAIN state.parity_chunks :
                    (BlockIds(state, block_id) \subseteq DOMAIN state.data_chunks) =>
                        \A c \in BlockIds(state, block_id) :
                            /\ state.data_chunks[c] = snd.chunks[b][c].payload
                            /\ crc32(state.data_chunks[c]) = snd.chunks[b][c].checksum
              /\ b \in DOMAIN rcv.files => rcv.files[b] = file

\* C5 (monotonic window). Over the Send Engine's operations on a bundle
\* (handle_sack with any SACK, handle_delivered, check_timeouts,
\* retransmit_chunks, and time passing), as long as the bundle's SendState
\* lives in one process, window_start never decreases and no chunk id leaves
\* acked_chunks; a SACK listing fewer chunks un-acknowledges nothing.
C5_MonotonicWindow ==
    [][restarts' = restarts =>
         \A b \in (DOMAIN snd.active_sends) \cap (DOMAIN snd'.active_sends) :
             /\ snd'.active_sends[b].window_start >= snd.active_sends[b].window_start
             /\ snd.active_sends[b].acked_chunks \subseteq snd'.active_sends[b].acked_chunks]_vars

\* A SACK listing only some of the acknowledged chunks has just been handled
\* by a bundle whose window had moved.
C5_Witness ==
    /\ last = "sack_fewer"
    /\ \E b \in DOMAIN snd.active_sends :
          /\ snd.active_sends[b].window_start > 0
          /\ Cardinality(snd.active_sends[b].acked_chunks) >= 2

\* The window and the acknowledged set of bundle b in node s.
WindowOf(s, b) ==
    << s.active_sends[b].window_start, s.active_sends[b].window_end,
       s.active_sends[b].acked_chunks >>

\* C6 (idempotent SACK). In every state and for every SACK, handle_sack
\* applied a second time with the same SACK leaves window_start, window_end
\* and acked_chunks as the first application left them.
C6_IdempotentSack ==
    \A b \in DOMAIN snd.active_sends : \A S \in SackSets :
        LET msg == _deserialize_message(_serialize_message(make_sack_msg(b, S)))
            once == handle_sack(snd, cfg, msg, AllOk).snd
            twice == handle_sack(once, cfg, msg, AllOk).snd
        IN  WindowOf(twice, b) = WindowOf(once, b)

\* The same SACK has just been handled again by a bundle still in progress
\* whose window it had moved.
C6_Witness ==
    /\ last = "sack_same"
    /\ \E b \in DOMAIN snd.active_sends :
          /\ snd.active_sends[b].window_start > 0
          /\ ~snd.active_sends[b].completed

\* C7 (window invariant). For every bundle being sent, with N chunks:
\* window_start is the smallest chunk id of 0..N-1 not in acked_chunks, N when
\* all are; 0 <= window_end - window_start <= window_size; window_end <= N.
C7_WindowInvariant ==
    \A b \in DOMAIN snd.active_sends :
        LET ss == snd.active_sends[b]
            N == ss.total_chunks
            open == {c \in 0..(N - 1) : c \notin ss.acked_chunks} \cup {N}
        IN  /\ ss.window_start \in open
            /\ \A c \in open : ss.window_start <= c
            /\ 0 <= ss.window_end - ss.window_start
            /\ ss.window_end - ss.window_start <= ss.window_size
            /\ ss.window_end <= N

\* A bundle whose window has moved but not to the end, with a chunk
\* acknowledged beyond the window's first chunk.
C7_Witness ==
    \E b \in DOMAIN snd.active_sends :
        LET ss == snd.active_sends[b]
        IN  /\ 0 < ss.window_start
            /\ ss.window_start < ss.total_chunks
            /\ \E c \in ss.acked_chunks : ss.window_start < c /\ c < ss.total_chunks

\* How often the current SendState of bundle b has emitted chunk c as DATA
\* (counted up to 2).
EmitCount(b, c) ==
    IF b \in DOMAIN emits /\ c \in DOMAIN emits[b] THEN emits[b][c] ELSE 0

\* The estimates of bundle b in node s.
EstimatesOf(s, b) ==
    << s.active_sends[b].smoothed_rtt, s.active_sends[b].rtt_variance,
       s.active_sends[b].timeout_interval >>

\* C8 (Karn's rule). A step that acknowledges new chunks of a bundle, every
\* one of which had been emitted as DATA more than once (by _send_window or
\* by retransmit_chunks), changes neither smoothed_rtt nor rtt_variance nor
\* the RTO (timeout_interval) of the bundle.
C8_KarnsRule ==
    [][\A b \in (DOMAIN snd.active_sends) \cap (DOMAIN snd'.active_sends) :
          LET newly_acked == snd'.active_sends[b].acked_chunks
                             \ snd.active_sends[b].acked_chunks
          IN  (/\ restarts' = restarts
               /\ newly_acked # {}
               /\ \A c \in newly_acked : EmitCount(b, c) >= 2)
              => EstimatesOf(snd', b) = EstimatesOf(snd, b)]_vars

C10_StatesMoveForward ==
    [][/\ \A b \in (DOMAIN snd.bundles) \cap (DOMAIN snd'.bundles) :
             snd.bundles[b].state = "delivered"
             => snd'.bundles[b].state \notin {"sending", "receiving"}
       /\ \A b \in (DOMAIN rcv.bundles) \cap (DOMAIN rcv'.bundles) :
             rcv.bundles[b].state = "delivered"
             => rcv'.bundles[b].state \notin {"sending", "receiving"}]_vars

\* C11 (custody round-trip). In every state and for every CUSTODY_REQ,
\* handle_custody_req leaves, in the Store and in memory, a custody record of
\* the bundle in state `accepted` with retry_count = 0 and retry_timer one
\* backoff_base ahead, and sends exactly one CUSTODY_ACK, which carries the
\* bundle_id and the ranges of the request.
C11_CustodyRoundTrip ==
    \A data \in CustodyReqs :
        LET msg == _deserialize_message(data)
            res == handle_custody_req(cust, msg)
            b == msg.bundle_id
        IN  /\ b \in DOMAIN res.cust.custody_records
            /\ LET record == res.cust.custody_records[b]
               IN  /\ record.state = "accepted"
                   /\ record.retry_count = 0
                   /\ record.retry_timer = cust.config.backoff_base_sec * 1000
                   /\ record.chunk_ranges = msg.ranges
                   /\ res.cust.active_records[b] = record
            /\ res.out = {make_custody_ack_msg(b, msg.ranges)}

\* C12 (custody retry bound). Every custody record, in memory and in the
\* Store, has retry_count <= max_retries, however many ticks have found its
\* retry timer expired.
C12_RetryBound ==
    /\ \A b \in DOMAIN cust.active_records :
          cust.active_records[b].retry_count <= cust.active_records[b].max_retries
    /\ \A b \in DOMAIN cust.custody_records :
          cust.custody_records[b].retry_count <= cust.custody_records[b].max_retries

\* A record that has used all its retries and was then found expired once more.
C12_Witness ==
    \E b \in DOMAIN cust.active_records :
        LET record == cust.active_records[b]
        IN  /\ record.max_retries >= 2
            /\ record.retry_count = record.max_retries
            /\ record.state = "failed"

\* The custody manager after n ticks, each of which finds every retry timer
\* expired.
RECURSIVE ExpiredTicks(_, _)
ExpiredTicks(cm, n) ==
    IF n = 0 THEN cm
    ELSE ExpiredTicks(
             check_retry_timers(
                 ElapseCustody(cm, 2^(MaxRetries + 1) * cm.config.backoff_base_sec * 1000)),
             n - 1)

\* C13 (custody retry and failure). For every record in state `accepted`, a
\* tick that finds retry_timer expired and retry_count < max_retries adds one
\* to retry_count and re-arms the timer 2^retry_count * backoff_base ahead
\* (with the new count), in memory and in the Store; a tick that finds it
\* expired with retry_count >= max_retries moves the record to `failed`; a
\* tick that finds the timer not expired changes nothing.  Hence max_retries
\* ticks finding a fresh record expired leave it `accepted` with retry_count =
\* max_retries, and after max_retries + 1 such ticks the record is `failed`.
C13_RetryAndFailure ==
    \A b \in DOMAIN cust.active_records :
        LET record == cust.active_records[b]
            after == check_retry_timers(cust)
            max_retries == record.max_retries
        IN  record.state = "accepted" =>
              /\ after.custody_records[b] = after.active_records[b]
              /\ record.retry_timer > 0 => after.active_records[b] = record
              /\ (record.retry_timer = 0 /\ record.retry_count < max_retries) =>
                    after.active_records[b] =
                        [record EXCEPT !.retry_count = record.retry_count + 1,
                                       !.retry_timer =
                                           2^(record.retry_count + 1)
                                           * cust.config.backoff_base_sec * 1000]
              /\ (record.retry_timer = 0 /\ record.retry_count >= max_retries) =>
                    after.active_records[b] = [record EXCEPT !.state = "failed"]
              /\ ExpiredTicks(cust, max_retries + 1).active_records[b].state = "failed"
              /\ record.retry_count = 0 =>
                    LET late == ExpiredTicks(cust, max_retries).active_records[b]
                    IN  late.state = "accepted" /\ late.retry_count = max_retries

\* A record of a manager with two retries that a tick has re-armed for the
\* second time, and is still `accepted`.
C13_Witness ==
    \E b \in DOMAIN cust.active_records :
        LET record == cust.active_records[b]
        IN  /\ record.state = "accepted"
            /\ record.max_retries = 2
            /\ record.retry_count = 2
            /\ record.retry_timer = 4 * cust.config.backoff_base_sec * 1000

\* C14 (timeout backoff). In every state, for every bundle not completed that
\* has an expired timer of an unacked chunk, check_timeouts leaves the
\* bundle's retransmit queue non-empty and its timeout_interval strictly
\* greater than it was and at most max_rto_ms.
C14_TimeoutBackoff ==
    \A b \in DOMAIN snd.active_sends :
        LET ss == snd.active_sends[b]
            after == check_timeouts(snd, cfg).active_sends[b]
        IN  (/\ ~ss.completed
             /\ \E c \in DOMAIN ss.chunk_timers :
                   c \notin ss.acked_chunks /\ ss.chunk_timers[c] <= 0)
            => /\ after.retransmit_queue # <<>>
               /\ after.timeout_interval > ss.timeout_interval
               /\ after.timeout_interval <= cfg.max_rto_ms * FP

\* C14, as the code has it. In every state, for every bundle not completed
\* that has an expired timer of an unacked chunk, check_timeouts leaves the
\* bundle's retransmit queue non-empty and its timeout_interval at
\* min(2 * the interval before, max_rto_ms): at most max_rto_ms, and strictly
\* greater than before exactly when the interval before was below max_rto_ms.
C14_TimeoutBackoffCapped ==
    \A b \in DOMAIN snd.active_sends :
        LET ss == snd.active_sends[b]
            after == check_timeouts(snd, cfg).active_sends[b]
        IN  (/\ ~ss.completed
             /\ \E c \in DOMAIN ss.chunk_timers :
                   c \notin ss.acked_chunks /\ ss.chunk_timers[c] <= 0)
            => /\ after.retransmit_queue # <<>>
               /\ after.timeout_interval = Min(2 * ss.timeout_interval, cfg.max_rto_ms * FP)
               /\ after.timeout_interval <= cfg.max_rto_ms * FP
               /\ (after.timeout_interval > ss.timeout_interval)
                     <=> (ss.timeout_interval < cfg.max_rto_ms * FP)

\* A bundle whose interval the backoff has brought to max_rto_ms and whose
\* retransmitted chunk has timed out again.
C14_Witness ==
    \E b \in DOMAIN snd.active_sends :
        LET ss == snd.active_sends[b]
        IN  /\ ~ss.completed
            /\ ss.chunks_retransmitted >= 2
            /\ ss.timeout_interval = cfg.max_rto_ms * FP
            /\ \E c \in DOMAIN ss.chunk_timers :
                  c \notin ss.acked_chunks /\ ss.chunk_timers[c] <= 0

\* C15 (SACK window advance). In every state, for every bundle whose window
\* does not yet reach its N chunks and every SACK that acknowledges the chunk
\* at window_start, handle_sack leaves window_start at the smallest chunk id
\* not acknowledged (N when all are), window_end at
\* min(window_start + window_size, N), and emits as DATA every unacked chunk
\* id from the old window_end up to the new one.
C15_SackWindowAdvance ==
    \A b \in DOMAIN snd.active_sends : \A S \in SackSets :
        LET ss == snd.active_sends[b]
            N == ss.total_chunks
            msg == _deserialize_message(_serialize_message(make_sack_msg(b, S)))
            res == handle_sack(snd, cfg, msg, AllOk)
            after == res.snd.active_sends[b]
            open == {c \in 0..(N - 1) : c \notin after.acked_chunks} \cup {N}
        IN  (ss.window_end < N /\ ss.window_start \in msg.acked_chunks)
            => /\ after.window_start \in open
               /\ \A c \in open : after.window_start <= c
               /\ after.window_end = Min(after.window_start + ss.window_size, N)
               /\ \A c \in ss.window_end .. (after.window_end - 1) :
                     c \notin after.acked_chunks
                     => \E m \in res.out :
                           m.msg_type = "DATA" /\ m.bundle_id = b /\ m.chunk_id = c

\* C16 (codec round-trip). Whenever a message of one of the five kinds, with
\* a bundle_id of at most 16 bytes, has been encoded into a datagram, decoding
\* the datagram yields a message of the same type and bundle_id with equal
\* fields: chunk_id, total_chunks, block_id, k, r, checksum and payload for
\* DATA; watermark and bitmap for SACK; the same list of ranges for
\* CUSTODY_REQ and CUSTODY_ACK; ttl_remaining as its whole seconds.
C16_CodecRoundTrip ==
    (net.data # None /\ Len(net.message.bundle_id) <= 16) =>
        LET message == net.message
            got == _receive_loop(net.data)
        IN  /\ got.msg_type = message.msg_type
            /\ got.bundle_id = message.bundle_id
            /\ message.msg_type = "DATA" =>
                  /\ got.chunk_id = message.chunk_id
                  /\ got.total_chunks = message.total_chunks
                  /\ got.block_id = message.block_id
                  /\ got.k = message.k
                  /\ got.r = message.r
                  /\ got.checksum = message.checksum
                  /\ got.payload = message.payload
            /\ message.msg_type = "SACK" =>
                  /\ got.recv_watermark = message.recv_watermark
                  /\ got.sack_bitmap = message.sack_bitmap
            /\ message.msg_type \in {"CUSTODY_REQ", "CUSTODY_ACK"} =>
                  got.ranges = message.ranges
            /\ message.msg_type = "CUSTODY_REQ" =>
                  /\ got.ttl_remaining * TtlUnit <= message.ttl_remaining
                  /\ message.ttl_remaining < (got.ttl_remaining + 1) * TtlUnit

\* A CUSTODY_REQ with ranges and a ttl of 60.5 s under a short bundle id has
\* been encoded, and decoded by the other side.
C16_Witness ==
    /\ net.received # None
    /\ net.received.msg_type = "CUSTODY_REQ"
    /\ net.message.ttl_remaining = 60 * TtlUnit + 5
    /\ net.received.ranges = << <<0, 10>> >>
    /\ Len(net.message.bundle_id) < 16

\* C17 (SACK set round-trip). Whenever the SACK that make_sack_msg builds from
\* a set S of chunk ids has been serialized, deserializing it reconstructs an
\* acked set equal to S.
C17_SackSetRoundTrip ==
    (net.data # None /\ net.message.msg_type = "SACK") =>
        _receive_loop(net.data).acked_chunks = net.acked

\* C17, as the code has it. The reconstructed set holds the ids of S up to
\* the watermark and those of the MAX_SACK_WINDOW_BITS ids above it; it
\* equals S when S has no id further above its watermark.
C17_SackSetWindow ==
    (net.data # None /\ net.message.msg_type = "SACK") =>
        LET got == _receive_loop(net.data)
            S == net.acked
            below == {w \in S : \A i \in 0..w : i \in S}
            watermark == IF below = {} THEN -1
                         ELSE CHOOSE w \in below : \A v \in below : v <= w
        IN  /\ got.recv_watermark = watermark
            /\ got.acked_chunks = {c \in S : c <= watermark + MAX_SACK_WINDOW_BITS}

\* A set with a watermark, a hole, ids above the hole and an id beyond the
\* SACK window has gone through, and came out without that id only.
C17_Witness ==
    /\ net.received # None
    /\ net.received.msg_type = "SACK"
    /\ net.acked = {0, 2, 3, MAX_SACK_WINDOW_BITS, MAX_SACK_WINDOW_BITS + 1}
    /\ net.received.acked_chunks = {0, 2, 3, MAX_SACK_WINDOW_BITS}

\* C18 (checksum policy). In every state and for every DATA message whose
\* declared checksum differs from the CRC-32 of its payload, handle_data
\* drops the message: the receiving node is as it was (received_chunks,
\* payloads, write buffer, Store and output files), no row is written, and
\* nothing is sent in reply.
C18_ChecksumPolicy ==
    \A b \in DOMAIN snd.chunks : \A data \in Wire(DamagedMessages(b)) :
        LET msg == _deserialize_message(data)
            res == handle_data(rcv, cfg.fec.enabled, msg, TRUE)
        IN  crc32(msg.payload) # msg.checksum =>
               /\ res.rcv = rcv
               /\ res.written = <<>>
               /\ res.out = {}

\* C19 (malformed datagrams are dropped). A step in which the node receives
\* a datagram shorter than the header of its declared type, or one whose
\* first octet is none of 1..5, hands no message to the dispatcher and
\* leaves the Send Engine, the Custody Manager and the Store as they were,
\* with no DATA emitted.
C19_MalformedDropped ==
    [][\A data \in MalformedDatagrams :
          Arrives(data, AllOk) =>
              /\ _receive_loop(data) = None
              /\ UNCHANGED <<snd, cust, emits>>]_vars

\* C20 (chunk count). Every bundle send_file has produced from a file of s
\* bytes with chunk_size c has total_chunks = ceil(s/c) + r * ceil(ceil(s/c)/k)
\* when FEC is on (k > 0, r > 0) and total_chunks = ceil(s/c) otherwise, and
\* the Store holds exactly the chunks 0 .. total_chunks - 1 of the bundle.
C20_ChunkCount ==
    \A b \in DOMAIN snd.bundles :
        LET row == snd.bundles[b]
            Ceil(x, y) == CHOOSE q \in 0..x : q * y >= x /\ (q = 0 \/ (q - 1) * y < x)
            n == Ceil(Len(file), cfg.chunk_size)
            total == IF row.fec_enabled /\ row.k > 0 /\ row.r > 0
                     THEN n + row.r * Ceil(n, row.k)
                     ELSE n
        IN  /\ row.file_size = Len(file)
            /\ row.total_chunks = total
            /\ DOMAIN snd.chunks[b] = 0..(total - 1)

\* A bundle with FEC whose last block is partial: 3 data chunks in blocks of
\* 2, and a parity chunk for each of the two blocks.
C20_Witness ==
    \E b \in DOMAIN snd.bundles :
        /\ snd.bundles[b].fec_enabled
        /\ snd.bundles[b].k = 2
        /\ snd.bundles[b].file_size = 3
        /\ cfg.chunk_size = 1
        /\ snd.bundles[b].total_chunks = 5
        /\ Cardinality(DOMAIN snd.chunks[b]) = 5

\* C21 (resume after restart). A restart of the sending node gives every
\* bundle whose Store row is in state `sending` a fresh SendState
\* (window_start 0, window_end min(window_size, N), nothing acknowledged) and
\* no SendState to any other bundle; and under the fair schedule a bundle that
\* is in state `sending` after a restart eventually leaves that state
\* (delivered).
C21_ResumeAfterRestart ==
    /\ [][restarts' = restarts + 1 =>
            \A b \in DOMAIN snd.bundles :
                IF snd.bundles[b].state = "sending"
                THEN /\ b \in DOMAIN snd'.active_sends
                     /\ snd'.active_sends[b].window_start = 0
                     /\ snd'.active_sends[b].window_end =
                            Min(cfg.window_size, snd.bundles[b].total_chunks)
                     /\ snd'.active_sends[b].acked_chunks = {}
                ELSE b \notin DOMAIN snd'.active_sends]_vars
    /\ \A b \in BundleIds :
          (/\ restarts > 0
           /\ b \in DOMAIN snd.bundles
           /\ snd.bundles[b].state = "sending")
          ~> (b \in DOMAIN snd.bundles /\ snd.bundles[b].state # "sending")

\* C22 (chunks persisted as one group). In every state, the Store of the
\* sending node holds for every bundle in state `sending` either all of its
\* total_chunks chunk rows or none of them.
C22_ChunksAllOrNone ==
    \A b \in DOMAIN snd.bundles :
        snd.bundles[b].state = "sending" =>
            LET rows == DOMAIN load_chunks_for_bundle(snd.chunks, b)
            IN  rows = {} \/ rows = 0 .. (snd.bundles[b].total_chunks - 1)

\* C23 (a failed send is re-driven). In every state, in every bundle not
\* completed, each chunk id of the window [window_start, window_end) that is
\* not acknowledged has a deadline in chunk_timers or waits in the retransmit
\* queue.
C23_FailedSendRedriven ==
    \A b \in DOMAIN snd.active_sends :
        LET ss == snd.active_sends[b]
        IN  ~ss.completed =>
                \A c \in ss.window_start .. (ss.window_end - 1) :
                    c \notin ss.acked_chunks =>
                        \/ c \in DOMAIN ss.chunk_timers
                        \/ c \in QueueIds(ss.retransmit_queue)

\* C24 (file I/O failure on receive). In every state: a DATA datagram in
\* flight that the receiver handles while its output file cannot be written
\* leaves a bundle that was not delivered in state `receiving` and makes the
\* receiver send neither DELIVERED nor CUSTODY_ACK; and the sending node has
\* marked no bundle completed whose file the receiver has not written.
C24_WriteFailureKeepsSending ==
    /\ \A data \in to_rcv :
          LET msg == _deserialize_message(data)
              b == msg.bundle_id
              res == handle_data(rcv, cfg.fec.enabled, msg, FALSE)
          IN  (b \in DOMAIN rcv.bundles => rcv.bundles[b].state = "receiving")
              => /\ res.rcv.bundles[b].state = "receiving"
                 /\ b \notin DOMAIN res.rcv.files
                 /\ \A m \in res.out : m.msg_type = "SACK"
    /\ \A b \in DOMAIN snd.active_sends :
          snd.active_sends[b].completed => b \in DOMAIN rcv.files

\* C25 (TTL expiry). In every state, for every bundle the cleanup pass has
\* deleted from the sending node's Store (sent once, no bundle row left), a
\* tick and the arrival of any SACK, DELIVERED or CUSTODY_ACK for it emit no
\* DATA of the bundle and leave the Store without bundle and chunk rows for it.
C25_ExpiredIsNoOp ==
    \A b \in used \ DOMAIN snd.bundles :
        LET NoOp(res) ==
                /\ \A m \in res.out : ~(m.msg_type = "DATA" /\ m.bundle_id = b)
                /\ b \notin DOMAIN res.snd.bundles
                /\ b \notin DOMAIN res.snd.chunks
        IN  /\ NoOp(_check_timeouts(snd, cfg, AllOk))
            /\ \A S \in SackSets :
                  NoOp(handle_sack(snd, cfg,
                          _receive_loop(_serialize_message(make_sack_msg(b, S))), AllOk))
            /\ NoOp([snd |-> handle_delivered(snd,
                          _receive_loop(_serialize_message(make_delivered_msg(b)))),
                     out |-> {}])
            /\ NoOp([snd |-> handle_custody_ack(snd,
                          _receive_loop(_serialize_message(make_custody_ack_msg(b, <<>>)))),
                     out |-> {}])

\* The chunk ids check_timeouts finds timed out in a SendState: not
\* acknowledged, deadline reached.
TimedOut(ss) ==
    {c \in DOMAIN ss.chunk_timers :
        c \notin ss.acked_chunks /\ ss.chunk_timers[c] <= 0}

C27_TimedOutMarked ==
    \A b \in DOMAIN snd.active_sends :
        LET ss == snd.active_sends[b]
            after == check_timeouts(snd, cfg).active_sends[b]
        IN  ~ss.completed => TimedOut(ss) \subseteq after.retransmitted_chunks

\* C28 (RTO bounds). With base_rto_ms <= max_rto_ms, in every state the
\* timeout_interval of every SendState lies between base_rto_ms and
\* max_rto_ms.
C28_RtoBounds ==
    cfg.base_rto_ms <= cfg.max_rto_ms =>
        \A b \in DOMAIN snd.active_sends :
            /\ cfg.base_rto_ms * FP <= snd.active_sends[b].timeout_interval
            /\ snd.active_sends[b].timeout_interval <= cfg.max_rto_ms * FP

C30_DeliveredIsFlushed ==
    \A b \in DOMAIN rcv.active_receives :
        LET state == rcv.active_receives[b]
        IN  state.delivered =>
                /\ state.write_buffer = <<>>
                /\ state.received_chunks
                       \subseteq DOMAIN load_chunks_for_bundle(rcv.chunks, b)

\* C31 (SACK cadence). In every state, for every DATA message of a bundle
\* that the receiver takes as new: if with it the number of received chunks
\* reaches a multiple of SackEvery, handle_data emits a SACK; and if with it
\* the bundle completes (every data chunk present, file delivered), received
\* or reconstructed, handle_data emits a SACK.
C31_SackCadence ==
    \A b \in (DOMAIN rcv.active_receives) \cap (DOMAIN snd.chunks) :
        \A m \in BundleMessages(b) :
            LET before == rcv.active_receives[b]
                res == handle_data(rcv, cfg.fec.enabled, m, TRUE)
                after == res.rcv.active_receives[b]
                sacks == {x \in res.out : x.msg_type = "SACK"}
            IN  ~IsDuplicate(before, m.chunk_id) =>
                    /\ Cardinality(after.received_chunks) % SackEvery = 0 => sacks # {}
                    /\ (~before.delivered /\ after.delivered) => sacks # {}

\* The layouts the inference is tried on: n data chunks in blocks of k with r
\* parity chunks each.
MaxInferN == 12
MaxInferK == 4
MaxInferR == 3

\* C32 (layout inference). For all n in 1..MaxInferN, k in 1..MaxInferK and
\* r in 1..MaxInferR, from total_chunks = n + r * ceil(n/k)
\* _infer_block_and_data_count gives B = ceil(n/k) and num_data_chunks = n,
\* and no other n' gives the same total; for a total that no n gives, the
\* ReceiveState is created with FEC off, k = r = 0 and every chunk counted as
\* data.  And in every state, a ReceiveState created with FEC from the
\* sender's DATA has the number of data chunks the sender cut the file into.
C32_LayoutInference ==
    /\ \A n \in 1..MaxInferN, k \in 1..MaxInferK, r \in 1..MaxInferR :
          LET total == n + r * CeilDiv(n, k)
          IN  /\ _infer_block_and_data_count(total, k, r) = <<CeilDiv(n, k), n>>
              /\ \A n2 \in 1..total : n2 + r * CeilDiv(n2, k) = total => n2 = n
              /\ _create_receive_state(total, k, r, TRUE).state.num_data_chunks = n
    /\ \A total \in 1..MaxInferN, k \in 1..MaxInferK, r \in 1..MaxInferR :
          (\A n \in 1..total : n + r * CeilDiv(n, k) # total) =>
              LET state == _create_receive_state(total, k, r, TRUE).state
              IN  /\ ~state.fec_enabled
                  /\ state.k = 0 /\ state.r = 0
                  /\ state.num_data_chunks = total
    /\ \A b \in (DOMAIN rcv.active_receives) \cap (DOMAIN snd.bundles) :
          rcv.active_receives[b].fec_enabled =>
              rcv.active_receives[b].num_data_chunks = CeilDiv(Len(file), cfg.chunk_size)

\* The receiver has created, from the sender's DATA, the ReceiveState of a
\* bundle with FEC whose last block is not full (3 data chunks in blocks of 2).
C32_Witness ==
    \E b \in (DOMAIN rcv.active_receives) \cap (DOMAIN snd.bundles) :
        LET state == rcv.active_receives[b]
        IN  /\ state.fec_enabled
            /\ state.k = 2
            /\ state.num_data_chunks = 3
            /\ state.total_chunks = 3 + state.r * 2

\* The unacked chunk ids of a SendState that are outstanding: deadline armed
\* or waiting in the retransmit queue.
Outstanding(ss) ==
    ((DOMAIN ss.chunk_timers) \cup QueueIds(ss.retransmit_queue)) \ ss.acked_chunks

\* C33 (backpressure). In every state, and in the state between
\* check_timeouts and retransmit_chunks of a tick, for every bundle: every
\* outstanding unacked chunk id lies in [window_start, window_end), so there
\* are at most window_size of them; and the DATA that _send_window and
\* retransmit_chunks emit there carries chunk ids of the window only.
C33_Backpressure ==
    \A b \in DOMAIN snd.active_sends :
        LET ticking == check_timeouts(snd, cfg)
            InWindow(ss, c) == ss.window_start <= c /\ c < ss.window_end
            Bounded(s) ==
                LET ss == s.active_sends[b]
                IN  /\ \A c \in Outstanding(ss) : InWindow(ss, c)
                    /\ Cardinality(Outstanding(ss)) <= ss.window_size
                    /\ \A m \in _send_window(s, b, AllOk).out :
                          InWindow(ss, m.chunk_id)
                    /\ \A m \in retransmit_chunks(s, b, AllOk).out :
                          InWindow(ss, m.chunk_id)
        IN  Bounded(snd) /\ Bounded(ticking)

\* A bundle whose window has moved and does not reach the last chunk, with a
\* chunk of the window timed out: the tick retransmits it.
C33_Witness ==
    \E b \in DOMAIN snd.active_sends :
        LET ss == snd.active_sends[b]
        IN  /\ ~ss.completed
            /\ 0 < ss.window_start
            /\ ss.window_end < ss.total_chunks
            /\ TimedOut(ss) # {}

\* Whether, for every id set S around the watermark and the end of the SACK
\* window, the SACK made from S decodes to a subset of S.
SackDecodesWithin ==
    \A b \in BundleIds, S \in SUBSET SackIds :
        LET data == send_message(make_sack_msg(b, S))
        IN  data # None => _receive_loop(data).acked_chunks \subseteq S

\* C34 (the sender never believes more than the receiver has). In every
\* state, for every bundle, the sender's acked_chunks is a subset of the
\* receiver's received_chunks (empty while the receiver has no ReceiveState
\* for it), and so is the id set every SACK in flight decodes to; and for
\* every id set S around the watermark and the end of the SACK window, the
\* SACK made from S decodes to a subset of S.
C34_AckedWithinReceived ==
    LET Received(b) == IF b \in DOMAIN rcv.active_receives
                       THEN rcv.active_receives[b].received_chunks ELSE {}
    IN  /\ \A b \in DOMAIN snd.active_sends :
              snd.active_sends[b].acked_chunks \subseteq Received(b)
        /\ \A data \in to_snd :
              LET msg == _receive_loop(data)
              IN  msg.msg_type = "SACK" =>
                      msg.acked_chunks \subseteq Received(msg.bundle_id)
        /\ SackDecodesWithin

\* The sender has taken a SACK with a hole (chunk 1 acknowledged, chunk 0
\* not) after the channel dropped or duplicated a datagram.
C34_Witness ==
    \E b \in DOMAIN snd.active_sends :
        LET ss == snd.active_sends[b]
        IN  /\ ~ss.completed
            /\ 1 \in ss.acked_chunks
            /\ 0 \notin ss.acked_chunks
            /\ faults > 0

\* C35 (a completed bundle is silent). In every state, for every bundle whose
\* SendState is marked completed: its chunk cache is dropped, and the arrival
\* of any SACK for it and a tick emit no DATA of the bundle and leave the
\* chunk cache dropped.
C35_CompletedIsSilent ==
    \A b \in DOMAIN snd.active_sends :
        snd.active_sends[b].completed =>
            LET Silent(res) ==
                    /\ \A m \in res.out : ~(m.msg_type = "DATA" /\ m.bundle_id = b)
                    /\ b \notin DOMAIN res.snd.chunk_cache
            IN  /\ b \notin DOMAIN snd.chunk_cache
                /\ Silent(_check_timeouts(snd, cfg, AllOk))
                /\ \A S \in SackSets :
                      Silent(handle_sack(snd, cfg,
                                _receive_loop(_serialize_message(make_sack_msg(b, S))),
                                AllOk))

\* C36: custody terminal states are absorbing. Whenever a custody record is
\* `complete` or `failed`, no operation of the CustodyManager (a CUSTODY_REQ
\* for the same bundle, DELIVERED, CUSTODY_ACK, a tick) changes its state,
\* retry_count or retry_timer, in memory or in the Store.
C36_TerminalAbsorbing ==
    \A b \in DOMAIN cust.active_records :
        cust.active_records[b].state \in {"complete", "failed"} =>
            LET record == cust.active_records[b]
                Same(r) == /\ r.state = record.state
                           /\ r.retry_count = record.retry_count
                           /\ r.retry_timer = record.retry_timer
                Kept(cm) == /\ b \in DOMAIN cm.active_records
                            /\ Same(cm.active_records[b])
                            /\ b \in DOMAIN cm.custody_records
                            /\ Same(cm.custody_records[b])
            IN  /\ Kept(check_retry_timers(cust))
                /\ Kept(custody_handle_delivered(cust, make_delivered_msg(b)))
                /\ \A data \in CustodyReqs :
                      _receive_loop(data).bundle_id = b =>
                          Kept(handle_custody_req(cust, _receive_loop(data)).cust)

\* A handler of the CustodyManager taken as one step.
CustodyOp(cm, op) ==
    IF op.op = "tick" THEN check_retry_timers(cm)
    ELSE custody_handle_delivered(cm, make_delivered_msg(op.bundle_id))

\* The records, in memory and in the Store, after the handlers of `ops` ran
\* one after the other on the node `cm`, in each of their orders.
SerialOutcomes(cm, ops) ==
    {LET after == IF Len(ops) = 1 THEN CustodyOp(cm, ops[1])
                  ELSE CustodyOp(CustodyOp(cm, ops[order[1]]), ops[order[2]])
     IN  <<after.active_records, after.custody_records>> :
        order \in {<<1, 2>>, <<2, 1>>}}

\* C37: custody records are updated atomically across threads. Whenever the
\* receive thread in handle_delivered and the event loop's thread in
\* check_retry_timers have run at the same time and both have returned, the
\* records in memory and in the Store are what one of the two serial orders
\* of the handlers leaves; and no step of the tick's thread changes the
\* state or raises the retry_count of a record that is `complete`, in memory
\* or in the Store.
C37_CustodySerial ==
    /\ [](BothIdle /\ threads.ops # <<>> =>
             <<cust.active_records, cust.custody_records>>
                 \in SerialOutcomes(threads.base, threads.ops))
    /\ [][threads'.tick # threads.tick =>
             \A b \in DOMAIN cust.active_records :
                 \A records \in {<<cust.active_records, cust'.active_records>>,
                                 <<cust.custody_records, cust'.custody_records>>} :
                     records[1][b].state = "complete" =>
                         /\ records[2][b].state = "complete"
                         /\ records[2][b].retry_count <= records[1][b].retry_count]_vars

\* C39: the delivered file never contains parity bytes. For every bundle the
\* sender applied FEC to (its DATA carries k > 0 and r > 0) and the receiver
\* has delivered, the output file is the payloads of the bundle's data chunks
\* (chunk ids below the number of data chunks) in order, and nothing else,
\* whatever the receiver's own fec.enabled is.
C39_NoParityInFile ==
    \A b \in (DOMAIN rcv.files) \cap (DOMAIN snd.chunks) :
        (\E m \in BundleMessages(b) : m.k > 0 /\ m.r > 0) =>
            LET data_ids == {c \in DOMAIN snd.chunks[b] : ~snd.chunks[b][c].is_parity}
                num_data == Cardinality(data_ids)
            IN  rcv.files[b] = Concat([i \in 1..num_data |-> snd.chunks[b][i - 1].payload])

\* C40: a transfer of a zero-byte file terminates. Once send_file has
\* registered the bundle of an empty file, the bundle has total_chunks = 0
\* and eventually its SendState is completed or its row is in state
\* `delivered`, which is the test wait_for_completion returns true on.
C40_EmptyFileTerminates ==
    \A b \in BundleIds :
        (b \in DOMAIN snd.active_sends /\ file = <<>>)
            ~> (/\ b \in DOMAIN snd.active_sends
                /\ snd.bundles[b].total_chunks = 0
                /\ \/ snd.active_sends[b].completed
                   \/ snd.bundles[b].state = "delivered")

\* C38: SendState is updated atomically across threads. With the event
\* loop's thread in check_timeouts and retransmit_chunks, the receive thread
\* in handle_sack and a caller's thread in Node.send_file at the same time,
\* the tick's pass never ends with an exception raised on a timer or a map
\* entry changed by another thread, and whenever no thread is inside a
\* handler, no acknowledged chunk has an armed deadline in chunk_timers.
C38_SendStateSerial ==
    /\ threads.raised = Quiet
    /\ AllIdle =>
          \A b \in DOMAIN snd.active_sends :
              snd.active_sends[b].acked_chunks
                  \cap DOMAIN snd.active_sends[b].chunk_timers = {}

====
